---- MODULE Spec2Model ----
(***************************************************************************)
(* Model of the command dispatch and conversational-state engine of ash:   *)
(* App.HandleMessage, App.dispatchBotCommand, the knock-knock exchange     *)
(* (App.startKnockKnock, App.handleKnockKnockReply) and the                *)
(* KnockKnockState store, with the goroutines the handlers start; the      *)
(* execution of one catalog entry (bot.LoadBotConfig, bot.FetchBotCommand   *)
(* and its handlers, the reply of the command goroutine); and the pure     *)
(* functions of the Router (command name, GenerateHelpMessage).            *)
(*                                                                         *)
(* A message body is a sequence of whitespace-delimited tokens (what       *)
(* strings.Fields returns); a reply label is one token.                    *)
(***************************************************************************)
EXTENDS Integers, Sequences, FiniteSets, TLC

\* ------------------------------------------------------------------ bounds
\* number of HandleMessage calls in one run, for any configuration
MaxMsgs == 2
\* number of HandleMessage calls in one run of the exchange configuration
MaxExchangeMsgs == 4
\* number of exchanges the users start in such a run
MaxStarts == 1
\* number of HandleMessage calls in one run under fair scheduling
MaxFairMsgs == 2
\* number of fields of a body the command name is resolved for
MaxBodyLen == 3
\* number of names in the allow-list the help message is generated for
MaxAllowed == 2
\* the rows of a table of the leaderboard
MaxRows == 2
\* the segments of a JSON path
MaxPath == 2
\* the characters of a text that is truncated, and the token budgets
MaxText == 8
MaxTokens == 2

\* ------------------------------------------------------------- vocabulary
NoEvent == 0
Rooms == {"!a", "!b"}

\* bot.KnockKnockJokes (the first two entries of the list)
KnockKnockJokes ==
  << [Name |-> "Lettuce", Punchline |-> "Lettuce in, it's cold out here!"],
     [Name |-> "Atch",    Punchline |-> "Bless you!"] >>

\* the catalog of bot.json: command name -> BotCommand
Commands ==
  [c \in {"hi", "kk", "run"} |->
     CASE c = "hi"  -> [Type |-> "static",  Command |-> "", Response |-> "hello"]
       [] c = "kk"  -> [Type |-> "builtin", Command |-> "knockknock", Response |-> ""]
       [] c = "run" -> [Type |-> "exec",    Command |-> "convert", Response |-> ""]]

VARIABLES
  Cfg,          \* config.Config: RoomIDs, BotReplyLabel, DryRun
  BotCfg,       \* *bot.BotConfig (isNil when bot.json failed to load)
  ReadyChan,    \* TRUE once readyChan is closed
  evCtxDone,    \* TRUE once the context of the handlers is cancelled
  pending,      \* KnockKnockState.pending: event id -> KnockKnockStep
  MessagesDB,   \* ids of the rows of table messages
  sent,         \* the messages the bot has posted
  nextEventID,  \* the next event id the homeserver assigns
  msgsLeft,     \* number of HandleMessage calls still to come
  vocabulary,   \* how often each event of the users is still delivered
  continued,    \* the replies routed as ConversationContinuation, per anchor
  gate,         \* the dispatch that is inside the select of dispatchBotCommand
  tasks,        \* the goroutines started by the handlers
  last,         \* what HandleMessage did with the latest event
  run,          \* one execution of a command: bot.json, handler, its files
  call          \* the latest call of a pure function: arguments and result

vars == << Cfg, BotCfg, ReadyChan, evCtxDone, pending, MessagesDB, sent,
           nextEventID, msgsLeft, vocabulary, continued, gate, tasks,
           last, run, call >>

\* ------------------------------------------------------------ pure helpers

\* util.InSlice
InSlice(slice, item) == \E i \in 1..Len(slice) : slice[i] = item

\* strings.Contains(body, label), on tokens
Contains(body, label) == \E i \in 1..Len(body) : body[i] = label

\* strings.HasPrefix(body, prefix): the body starts with the prefix when its
\* first token is the prefix or the prefix followed by more characters
Extends(prefix) ==
  CASE prefix = "/bot"  -> {"/bot", "/botany"}
    [] prefix = "@gork" -> {"@gork", "@gorky"}
    [] OTHER -> {prefix}

HasPrefix(body, prefix) == Len(body) > 0 /\ body[1] \in Extends(prefix)

\* links.ExtractLinks: the URLs of a body
ExtractLinks(body) == SelectSeq(body, LAMBDA w : w = "http://x")

\* a ResolveReplyLabel that prefers the label of bot.json
ResolveReplyLabelBotFirst(cfg, botCfg) ==
  IF ~botCfg.isNil /\ botCfg.Label # "" THEN botCfg.Label
  ELSE IF ~cfg.isNil /\ cfg.BotReplyLabel # "" THEN cfg.BotReplyLabel
  ELSE ">"

\* ResolveReplyLabel: config.BOT_REPLY_LABEL -> bot.json label -> "> "
ResolveReplyLabel(cfg, botCfg) ==
  IF ~cfg.isNil /\ cfg.BotReplyLabel # "" THEN cfg.BotReplyLabel
  ELSE IF ~botCfg.isNil /\ botCfg.Label # "" THEN botCfg.Label
  ELSE ">"

\* a []string is its nil flag and its elements
NilSlice == [isNil |-> TRUE, v |-> << >>]
Slice(v) == [isNil |-> FALSE, v |-> v]

\* the zero value of config.RoomIDEntry
ZeroRoom == [ID |-> "", AllowedCommands |-> NilSlice]

\* a findRoom that does not compare the ids
findRoomAny(roomID) ==
  IF Len(Cfg.RoomIDs) = 0 THEN [entry |-> ZeroRoom, ok |-> FALSE]
  ELSE [entry |-> Cfg.RoomIDs[1], ok |-> TRUE]

\* App.findRoom: the first entry of Cfg.RoomIDs with that id
findRoom(roomID) ==
  LET hits == {i \in 1..Len(Cfg.RoomIDs) : Cfg.RoomIDs[i].ID = roomID}
  IN IF hits = {} THEN [entry |-> ZeroRoom, ok |-> FALSE]
     ELSE [entry |-> Cfg.RoomIDs[CHOOSE i \in hits : \A j \in hits : i <= j],
           ok |-> TRUE]

\* KnockKnockState.Set / Get / Delete (each one critical section of s.mu)
Set(p, evID, step) ==
  [k \in DOMAIN p \cup {evID} |-> IF k = evID THEN step ELSE p[k]]

NoStep == [Joke |-> [Name |-> "", Punchline |-> ""], Step |-> 0, Label |-> ""]

Get(p, evID) ==
  IF evID \in DOMAIN p THEN [v |-> p[evID], ok |-> TRUE]
  ELSE [v |-> NoStep, ok |-> FALSE]

\* a Delete that leaves the entry in the store
KeepEntry(p, evID) == p

Delete(p, evID) == [k \in DOMAIN p \ {evID} |-> p[k]]

\* ------------------------------------------------------- events and posts

NoMsg == [id |-> NoEvent, room |-> "", body |-> << >>, replyTo |-> NoEvent,
          fault |-> "none"]

\* the reply label the bot stamps on its messages
label == ResolveReplyLabel(Cfg, BotCfg)

\* what the users send: a room, a body, and whether db.ProcessMessageEvent
\* or db.StoreMessage fails on it
Template(r, b, f) == [room |-> r, body |-> b, fault |-> f]

UserBodies ==
  { <<"/bot", "kk">>, <<"/bot", "run">>, <<"/bot">>, <<"/bot", "help">>,
    <<"@gork", "http://x">>, <<"who?">>, <<"see", "http://x">>,
    <<"/bot", "hi", label>> }

\* every body in every room, and the events that are turned down: a parse
\* error, a failing INSERT, an empty body
UserTemplates ==
  { Template(r, b, "none") : r \in Rooms, b \in UserBodies }
  \cup { Template("!a", <<"who?">>, "parse"), Template("!a", <<"who?">>, "store"),
         Template("!a", << >>, "none") }

\* the events of a run that is about the exchange: start it, answer it (with
\* a plain text or with a command), and one other command
ExchangeTemplates ==
  { Template("!a", b, "none") : b \in { <<"/bot", "kk">>, <<"who?">>, <<"/bot">> } }

TemplateOf(ev) == Template(ev.room, ev.body, ev.fault)

Available == {t \in DOMAIN vocabulary : vocabulary[t] > 0}

\* an event of a user: a fresh event id, and a reply to nothing or to a
\* message of the bot
UserEvents ==
  { [id |-> nextEventID, room |-> t.room, body |-> t.body, replyTo |-> rt,
     fault |-> t.fault] :
      t \in Available, rt \in {NoEvent} \cup {p.id : p \in sent} }

\* the bot's own messages come back through sync like any other event
EchoEvents ==
  { [id |-> p.id, room |-> p.room, body |-> p.body, replyTo |-> p.replyTo,
     fault |-> "none"] : p \in sent }

\* the homeserver may deliver the latest event of a user once more
Redelivered ==
  IF last.ev.id # NoEvent /\ TemplateOf(last.ev) \in Available
  THEN {last.ev} ELSE {}

Min(a, b) == IF a < b THEN a ELSE b

\* the deliveries left after ev was delivered, of which n are left in all
Delivered(ev, n) ==
  [t \in DOMAIN vocabulary |->
     Min(n, IF t = TemplateOf(ev) THEN vocabulary[t] - 1 ELSE vocabulary[t])]

Post(id, ev, kind, lbl, text, anchor) ==
  [id |-> id, room |-> ev.room, replyTo |-> ev.id, body |-> <<lbl, text>>,
   kind |-> kind, anchor |-> anchor]

\* client.SendMessageEvent(ctx, ...) fails or succeeds; with ctx cancelled the
\* request is not made
SendOutcomes == IF evCtxDone THEN {FALSE} ELSE {TRUE, FALSE}

\* ------------------------------------------------------------- goroutines

\* a goroutine: the event it answers (id and room), its local variables and
\* the statement it is at
Task(tid, kind, pc, ev, step, orig, resp, cmd) ==
  [tid |-> tid, kind |-> kind, pc |-> pc, ev |-> [id |-> ev.id, room |-> ev.room],
   step |-> step, orig |-> orig, resp |-> resp, cmd |-> cmd]

\* a Set that schedules no cleanup
NoEvictTask(key) == {}

\* the cleanup goroutine started after KnockKnock.Set(key, ...)
EvictTask(key) ==
  { Task(key, "evict", "sleep", NoMsg, NoStep, key, NoEvent, "") }

Replace(t, u) == (tasks \ {t}) \cup {u}
Finish(t) == tasks \ {t}

\* ------------------------------------------------------------ the Router

\* a command test that does not look at the allow-list
IsCommandAnyRoom(room, body) ==
  HasPrefix(body, "/bot") \/ HasPrefix(body, "@gork")

\* the test of HandleMessage for a bot command: the room has an allow-list
\* and the body starts with a command prefix
IsCommand(room, body) ==
  /\ ~room.AllowedCommands.isNil
  /\ (HasPrefix(body, "/bot") \/ HasPrefix(body, "@gork"))

\* a Router that tests for a command before it looks the reply up in the store
RouteCommandFirst(ev, room) ==
  IF IsCommand(room, ev.body) THEN "Command"
  ELSE IF ev.replyTo # NoEvent /\ Get(pending, ev.replyTo).ok
    THEN "ConversationContinuation"
  ELSE "PassThrough"

\* HandleMessage after the label check: a reply to a key of the store is a
\* continuation, else a command is dispatched, else the links are processed
Route(ev, room) ==
  IF ev.replyTo # NoEvent /\ Get(pending, ev.replyTo).ok
    THEN "ConversationContinuation"
  ELSE IF IsCommand(room, ev.body) THEN "Command"
  ELSE "PassThrough"

\* a HandleMessage that looks for the reply label before it stores the message
ClassifyLabelFirst(ev) ==
  LET r == findRoom(ev.room)
  IN IF Len(Cfg.RoomIDs) > 0 /\ ~r.ok
       THEN [route |-> "Ignored", stored |-> FALSE]
     ELSE IF ev.fault = "parse" \/ ev.body = << >>
       THEN [route |-> "Rejected", stored |-> FALSE]
     ELSE IF Cfg.BotReplyLabel # "" /\ Contains(ev.body, Cfg.BotReplyLabel)
       THEN [route |-> "Ignored", stored |-> FALSE]
     ELSE IF ev.fault = "store"
       THEN [route |-> "Rejected", stored |-> FALSE]
     ELSE [route |-> Route(ev, r.entry), stored |-> TRUE]

\* a HandleMessage that logs the error of StoreMessage and goes on
ClassifyStoreErrorIgnored(ev) ==
  LET r == findRoom(ev.room)
  IN IF Len(Cfg.RoomIDs) > 0 /\ ~r.ok
       THEN [route |-> "Ignored", stored |-> FALSE]
     ELSE IF ev.fault = "parse" \/ ev.body = << >>
       THEN [route |-> "Rejected", stored |-> FALSE]
     ELSE IF Cfg.BotReplyLabel # "" /\ Contains(ev.body, Cfg.BotReplyLabel)
       THEN [route |-> "Ignored", stored |-> ev.fault # "store"]
     ELSE [route |-> Route(ev, r.entry), stored |-> ev.fault # "store"]

\* App.HandleMessage up to the point where the event is routed
Classify(ev) ==
  LET r == findRoom(ev.room)
  IN IF Len(Cfg.RoomIDs) > 0 /\ ~r.ok
       THEN [route |-> "Ignored", stored |-> FALSE]
     ELSE IF ev.fault = "parse" \/ ev.body = << >>
       THEN [route |-> "Rejected", stored |-> FALSE]
     ELSE IF ev.fault = "store"
       THEN [route |-> "Rejected", stored |-> FALSE]
     ELSE IF Cfg.BotReplyLabel # "" /\ Contains(ev.body, Cfg.BotReplyLabel)
       THEN [route |-> "Ignored", stored |-> TRUE]
     ELSE [route |-> Route(ev, r.entry), stored |-> TRUE]

\* a command name that does not know the alias
CommandNameNoAlias(body) == IF Len(body) >= 2 THEN body[2] ELSE "hi"

\* strings.TrimSpace(strings.TrimPrefix(body, "@gork")), as tokens
TrimPrefix(body) ==
  (IF body[1] = "@gorky" THEN <<"y">> ELSE << >>) \o Tail(body)

\* the command name of dispatchBotCommand: the second field of the body,
\* after "@gork ..." was rewritten to "/bot gork ..."; "hi" without one
CommandName(body) ==
  LET parts == IF HasPrefix(body, "@gork")
               THEN <<"/bot", "gork">> \o TrimPrefix(body) ELSE body
  IN IF Len(parts) >= 2 THEN parts[2] ELSE "hi"

\* a permission check without the reserved name
NotAllowedNoReserved(room, cmd) ==
  /\ Len(room.AllowedCommands.v) > 0
  /\ ~InSlice(room.AllowedCommands.v, cmd)

\* the permission check of dispatchBotCommand
NotAllowed(room, cmd) ==
  /\ Len(room.AllowedCommands.v) > 0
  /\ ~InSlice(room.AllowedCommands.v, cmd)
  /\ cmd # "hi"

\* a dispatch that looks the name up in the catalog before it tests for help
DispatchResultCatalogFirst(room, cmd) ==
  IF NotAllowed(room, cmd) THEN "notAllowed"
  ELSE IF BotCfg.isNil THEN "noConfig"
  ELSE IF cmd \notin DOMAIN Commands THEN "unknown"
  ELSE IF cmd = "help" THEN "help"
  ELSE IF Commands[cmd].Type = "builtin" /\ Commands[cmd].Command = "knockknock"
    THEN "knockknock"
  ELSE "exec"

\* what dispatchBotCommand does once it is past the select
DispatchResult(room, cmd) ==
  IF NotAllowed(room, cmd) THEN "notAllowed"
  ELSE IF BotCfg.isNil THEN "noConfig"
  ELSE IF cmd = "help" THEN "help"
  ELSE IF cmd \notin DOMAIN Commands THEN "unknown"
  ELSE IF Commands[cmd].Type = "builtin" /\ Commands[cmd].Command = "knockknock"
    THEN "knockknock"
  ELSE "exec"

\* the command names of the model in the order of sort.Strings (byte order)
ByteOrder == <<"gork", "help", "hi", "kk", "run", "yap">>

\* a < b for strings
Less(a, b) ==
  (CHOOSE i \in 1..Len(ByteOrder) : ByteOrder[i] = a)
    < (CHOOSE i \in 1..Len(ByteOrder) : ByteOrder[i] = b)

RECURSIVE SortStrings(_)
\* sort.Strings
SortStrings(s) ==
  IF s = << >> THEN << >>
  ELSE LET m == CHOOSE i \in 1..Len(s) :
                  \A j \in 1..Len(s) : ~Less(s[j], s[i]) /\ (s[j] = s[i] => i <= j)
       IN <<s[m]>> \o SortStrings(SubSeq(s, 1, m - 1) \o SubSeq(s, m + 1, Len(s)))

\* for cmd := range botCfg.Commands, in some order
Keys(names) ==
  CHOOSE s \in [1..Cardinality(names) -> names] : {s[i] : i \in DOMAIN s} = names

\* GenerateHelpMessage: the allowed names when there are any, else the names
\* of the catalog, sorted; the message is its first words and the names
GenerateHelpMessage(names, allowedCommands) ==
  LET cmds == IF Len(allowedCommands) > 0 THEN allowedCommands ELSE Keys(names)
  IN <<"Available commands:">> \o SortStrings(cmds)

\* the text dispatchBotCommand replies with, after the label
ReplyText(res, room) ==
  CASE res = "notAllowed" -> <<"command not allowed in this room">>
    [] res = "noConfig"   -> <<"no bot configuration loaded">>
    [] res = "help"       ->
         GenerateHelpMessage(DOMAIN Commands, room.AllowedCommands.v)
    [] res = "unknown"    ->
         <<"Unknown command.">>
           \o GenerateHelpMessage(DOMAIN Commands, room.AllowedCommands.v)
    [] OTHER -> << >>

\* a select without its cases: the dispatch goes on at once
SelectNoGate(ready, done) == {"ready"}

\* the cases of the select of dispatchBotCommand that can proceed
SelectCases(ready, done) ==
  (IF ready THEN {"ready"} ELSE {}) \cup (IF done THEN {"done"} ELSE {})

\* a verdict of a HandleMessage that handles the links of every message
VerdictLinksOnAnyRoute(ev, c, cmd, dispatch, result, posted) ==
  [ev |-> ev, route |-> c.route, stored |-> c.stored,
   links |-> Len(ExtractLinks(ev.body)) > 0,
   hooks |-> Len(ExtractLinks(ev.body)) > 0 /\ ~Cfg.DryRun,
   cmd |-> cmd, dispatch |-> dispatch, result |-> result, posted |-> posted,
   sawReady |-> ReadyChan, sawDone |-> evCtxDone]

\* a verdict of a processLinks that calls the hooks in a dry run too
VerdictHooksInDryRun(ev, c, cmd, dispatch, result, posted) ==
  [ev |-> ev, route |-> c.route, stored |-> c.stored,
   links |-> c.route = "PassThrough" /\ Len(ExtractLinks(ev.body)) > 0,
   hooks |-> c.route = "PassThrough" /\ Len(ExtractLinks(ev.body)) > 0,
   cmd |-> cmd, dispatch |-> dispatch, result |-> result, posted |-> posted,
   sawReady |-> ReadyChan, sawDone |-> evCtxDone]

\* what HandleMessage did with an event; links: processLinks found URLs and
\* exported the snapshots; hooks: it called the hook of the room for them
\* (for a room with a hook, a body without the opt-out tag and URLs that are
\* not blacklisted)
Verdict(ev, c, cmd, dispatch, result, posted) ==
  [ev |-> ev, route |-> c.route, stored |-> c.stored,
   links |-> c.route = "PassThrough" /\ Len(ExtractLinks(ev.body)) > 0,
   hooks |-> c.route = "PassThrough" /\ Len(ExtractLinks(ev.body)) > 0
               /\ ~Cfg.DryRun,
   cmd |-> cmd, dispatch |-> dispatch, result |-> result, posted |-> posted,
   sawReady |-> ReadyChan, sawDone |-> evCtxDone]

\* dispatchBotCommand after the select: a reply, or a goroutine.  n is the
\* next free event id, tid names the goroutine, v is the verdict so far
Dispatch(ev, room, n, tid, v, ok, joke) ==
  LET cmd == CommandName(ev.body)
      res == DispatchResult(room, cmd)
      replies == res \in {"notAllowed", "noConfig", "help", "unknown"}
  IN /\ IF replies /\ ok
          THEN /\ sent' = sent \cup
                    {[Post(n, ev, res, label, "", NoEvent)
                        EXCEPT !.body = <<label>> \o ReplyText(res, room)]}
               /\ nextEventID' = n + 1
          ELSE /\ sent' = sent
               /\ nextEventID' = n
     /\ tasks' =
          IF res = "knockknock"
            THEN tasks \cup { Task(tid, "startKnockKnock", "send", ev,
                                   [Joke |-> joke, Step |-> 0, Label |-> label],
                                   NoEvent, NoEvent, cmd) }
          ELSE IF res = "exec"
            THEN tasks \cup { Task(tid, "FetchBotCommand", "run", ev,
                                   NoStep, NoEvent, NoEvent, cmd) }
          ELSE tasks
     /\ last' = [v EXCEPT !.dispatch = "passed", !.result = res,
                          !.posted = replies /\ ok]

IdleGate == [state |-> "idle", ev |-> NoMsg, room |-> ZeroRoom, tid |-> 0]

Continued(anchor) == {c \in continued : c.anchor = anchor}

\* App.HandleMessage(evCtx, ev), with the dispatchBotCommand it calls
HandleMessage(ev) ==
  LET c == Classify(ev)
      room == findRoom(ev.room).entry
      n == IF ev.id = nextEventID THEN nextEventID + 1 ELSE nextEventID
      cmd == IF c.route = "Command" THEN CommandName(ev.body) ELSE ""
      cases == SelectCases(ReadyChan, evCtxDone)
      v(dispatch) == Verdict(ev, c, cmd, dispatch, "", FALSE)
  IN /\ gate.state = "idle"
     /\ msgsLeft > 0
     /\ msgsLeft' = msgsLeft - 1
     /\ MessagesDB' = IF c.stored THEN MessagesDB \cup {ev.id} ELSE MessagesDB
     /\ vocabulary' = IF ev \in UserEvents \cup Redelivered
                       THEN Delivered(ev, msgsLeft - 1)
                       ELSE Delivered(NoMsg, msgsLeft - 1)
     /\ UNCHANGED << run, call, Cfg, BotCfg, ReadyChan, evCtxDone, pending >>
     /\ continued' = IF c.route = "ConversationContinuation"
                      THEN continued \cup
                             {[anchor |-> ev.replyTo, tid |-> msgsLeft]}
                      ELSE continued
     /\ \/ /\ c.route \in {"Ignored", "Rejected", "PassThrough"}
           /\ last' = v("none")
           /\ nextEventID' = n
           /\ UNCHANGED << sent, tasks, gate >>
        \/ /\ c.route = "ConversationContinuation"
           /\ tasks' = tasks \cup
                { Task(msgsLeft, "handleKnockKnockReply", "delete", ev,
                       Get(pending, ev.replyTo).v, ev.replyTo, NoEvent, "") }
           /\ last' = v("none")
           /\ nextEventID' = n
           /\ UNCHANGED << sent, gate >>
        \/ /\ c.route = "Command"
           /\ Cfg.DryRun
           /\ last' = v("dryrun")
           /\ nextEventID' = n
           /\ UNCHANGED << sent, tasks, gate >>
        \/ /\ c.route = "Command"
           /\ ~Cfg.DryRun
           /\ cases = {}
           /\ gate' = [state |-> "blocked", ev |-> ev, room |-> room,
                       tid |-> msgsLeft]
           /\ last' = v("blocked")
           /\ nextEventID' = n
           /\ UNCHANGED << sent, tasks >>
        \/ /\ c.route = "Command"
           /\ ~Cfg.DryRun
           /\ "done" \in cases
           /\ last' = v("abandoned")
           /\ nextEventID' = n
           /\ UNCHANGED << sent, tasks, gate >>
        \/ /\ c.route = "Command"
           /\ ~Cfg.DryRun
           /\ "ready" \in cases
           /\ \E ok \in SendOutcomes, j \in 1..Len(KnockKnockJokes) :
                Dispatch(ev, room, n, msgsLeft, v("passed"), ok,
                         KnockKnockJokes[j])
           /\ UNCHANGED gate

\* the sync callback closes readyChan (once); a dispatch blocked in the select
\* is woken through the ReadyChan case
Ready ==
  /\ ~ReadyChan
  /\ ReadyChan' = TRUE
  /\ gate' = IF gate.state = "blocked" THEN [gate EXCEPT !.state = "ready"]
             ELSE gate
  /\ UNCHANGED << run, call, Cfg, BotCfg, evCtxDone, pending, MessagesDB, sent,
                  nextEventID, msgsLeft, vocabulary, continued, tasks, last >>

\* the context is cancelled; a dispatch blocked in the select is woken through
\* the Done case
Cancel ==
  /\ ~evCtxDone
  /\ evCtxDone' = TRUE
  /\ gate' = IF gate.state = "blocked" THEN [gate EXCEPT !.state = "done"]
             ELSE gate
  /\ UNCHANGED << run, call, Cfg, BotCfg, ReadyChan, pending, MessagesDB, sent,
                  nextEventID, msgsLeft, vocabulary, continued, tasks, last >>

\* dispatchBotCommand continues after its select returned
GateResume ==
  /\ gate.state \in {"ready", "done"}
  /\ gate' = IdleGate
  /\ UNCHANGED << run, call, Cfg, BotCfg, ReadyChan, evCtxDone, pending, MessagesDB,
                  msgsLeft, vocabulary, continued >>
  /\ \/ /\ gate.state = "done"
        /\ last' = [last EXCEPT !.dispatch = "abandoned"]
        /\ UNCHANGED << sent, nextEventID, tasks >>
     \/ /\ gate.state = "ready"
        /\ \E ok \in SendOutcomes, j \in 1..Len(KnockKnockJokes) :
             Dispatch(gate.ev, gate.room, nextEventID, gate.tid, last, ok,
                      KnockKnockJokes[j])

\* --------------------------------------------------- the knock-knock tasks

\* App.startKnockKnock: post the opener, then record step 0 under its event
\* id and start the cleanup goroutine
startKnockKnock(t) ==
  /\ t \in tasks /\ t.kind = "startKnockKnock"
  /\ UNCHANGED << run, call, Cfg, BotCfg, ReadyChan, evCtxDone, MessagesDB, msgsLeft,
                  vocabulary, continued, gate, last >>
  /\ \/ /\ t.pc = "send"
        /\ \E ok \in SendOutcomes :
             IF ok
               THEN /\ sent' = sent \cup
                         {Post(nextEventID, t.ev, "opener", t.step.Label,
                               "Knock knock!", NoEvent)}
                    /\ nextEventID' = nextEventID + 1
                    /\ tasks' = Replace(t, [t EXCEPT !.pc = "set",
                                                     !.resp = nextEventID])
               ELSE /\ tasks' = Finish(t)
                    /\ UNCHANGED << sent, nextEventID >>
        /\ UNCHANGED pending
     \/ /\ t.pc = "set"
        /\ pending' = Set(pending, t.resp, t.step)
        /\ tasks' = Finish(t) \cup EvictTask(t.resp)
        /\ UNCHANGED << sent, nextEventID >>

\* a handleKnockKnockReply that draws the joke of step 1 from the list again
NextStepFirstJoke(step) ==
  [Joke |-> KnockKnockJokes[1], Step |-> 1, Label |-> step.Label]

\* the step handleKnockKnockReply records after the name line was sent
NextStep(step) == [Joke |-> step.Joke, Step |-> 1, Label |-> step.Label]

\* App.handleKnockKnockReply: delete the matched entry; at step 0 post the
\* name line and record step 1 under its event id, else post the punchline
handleKnockKnockReply(t) ==
  /\ t \in tasks /\ t.kind = "handleKnockKnockReply"
  /\ UNCHANGED << run, call, Cfg, BotCfg, ReadyChan, evCtxDone, MessagesDB, msgsLeft,
                  vocabulary, continued, gate, last >>
  /\ \/ /\ t.pc = "delete"
        /\ t.step.Step = 0
        /\ pending' = Delete(pending, t.orig)
        /\ \E ok \in SendOutcomes :
             IF ok
               THEN /\ sent' = sent \cup
                         {Post(nextEventID, t.ev, "name", t.step.Label,
                               t.step.Joke.Name, t.orig)}
                    /\ nextEventID' = nextEventID + 1
                    /\ tasks' = Replace(t, [t EXCEPT !.pc = "set",
                                                     !.resp = nextEventID])
               ELSE /\ tasks' = Finish(t)
                    /\ UNCHANGED << sent, nextEventID >>
     \/ /\ t.pc = "delete"
        /\ t.step.Step # 0
        /\ pending' = Delete(pending, t.orig)
        /\ \E ok \in SendOutcomes :
             IF ok
               THEN /\ sent' = sent \cup
                         {Post(nextEventID, t.ev, "punchline", t.step.Label,
                               t.step.Joke.Punchline, t.orig)}
                    /\ nextEventID' = nextEventID + 1
               ELSE UNCHANGED << sent, nextEventID >>
        /\ tasks' = Finish(t)
     \/ /\ t.pc = "set"
        /\ pending' = Set(pending, t.resp, NextStep(t.step))
        /\ tasks' = Finish(t) \cup EvictTask(t.resp)
        /\ UNCHANGED << sent, nextEventID >>

\* the cleanup goroutine: after its sleep it deletes the key it was given
evict(t) ==
  /\ t \in tasks /\ t.kind = "evict" /\ t.pc = "sleep"
  /\ pending' = Delete(pending, t.orig)
  /\ tasks' = Finish(t)
  /\ UNCHANGED << run, call, Cfg, BotCfg, ReadyChan, evCtxDone, MessagesDB, sent,
                  nextEventID, msgsLeft, vocabulary, continued, gate, last >>

\* what bot.FetchBotCommand can return for a command: a text, an error, or
\* an empty text after the handler posted its own message (its requests and
\* its post are made with ctx)
Outcomes(cmd) ==
  IF Commands[cmd].Response # "" THEN {"text"}
  ELSE IF evCtxDone THEN {"text", "error"}
  ELSE {"text", "error", "own"}

\* the goroutine of dispatchBotCommand that runs bot.FetchBotCommand and
\* posts its result
FetchBotCommand(t) ==
  /\ t \in tasks /\ t.kind = "FetchBotCommand" /\ t.pc = "run"
  /\ tasks' = Finish(t)
  /\ UNCHANGED << run, call, Cfg, BotCfg, ReadyChan, evCtxDone, pending, MessagesDB,
                  msgsLeft, vocabulary, continued, gate, last >>
  /\ \E out \in Outcomes(t.cmd), ok \in SendOutcomes :
       IF out = "own"
         THEN /\ sent' = sent \cup
                   {[Post(nextEventID, t.ev, "own", "", "image", NoEvent)
                       EXCEPT !.body = <<"image">>]}
              /\ nextEventID' = nextEventID + 1
       ELSE IF ok
         THEN /\ sent' = sent \cup
                   {Post(nextEventID, t.ev,
                         IF out = "text" THEN "result" ELSE "error", label,
                         IF out = "text" THEN "response"
                         ELSE "sorry, couldn't execute", NoEvent)}
              /\ nextEventID' = nextEventID + 1
       ELSE UNCHANGED << sent, nextEventID >>

\* ------------------------------------------------------- the specification

RoomEntry(r, ac) == [ID |-> r, AllowedCommands |-> ac]

\* MATRIX_ROOM_ID of config.json: no room; room !a with every command
\* allowed; room !a with only kk allowed and room !b without an allow-list
RoomConfigs ==
  { << >>,
    << RoomEntry("!a", Slice(<< >>)) >>,
    << RoomEntry("!a", Slice(<<"kk">>)), RoomEntry("!b", NilSlice) >> }

Config(rs, l, d) ==
  [isNil |-> FALSE, RoomIDs |-> rs, BotReplyLabel |-> l, DryRun |-> d]

\* config.json and bot.json: the rooms, where the label comes from (config,
\* bot.json, the default, with or without a loaded bot.json), DRY_RUN
Setups ==
  { [cfg |-> Config(rs, lb[1], FALSE), bot |-> lb[2]] :
      rs \in RoomConfigs,
      lb \in { <<"[BOT]", [isNil |-> FALSE, Label |-> "[ash]"]>>,
               <<"", [isNil |-> FALSE, Label |-> "[ash]"]>>,
               <<"", [isNil |-> TRUE, Label |-> ""]>> } }
  \cup
  { [cfg |-> Config(<< RoomEntry("!a", Slice(<< >>)) >>, "[BOT]", TRUE),
     bot |-> [isNil |-> FALSE, Label |-> ""]] }

NoVerdict ==
  [ev |-> NoMsg, route |-> "none", stored |-> FALSE, links |-> FALSE,
   hooks |-> FALSE,
   cmd |-> "", dispatch |-> "none", result |-> "", posted |-> FALSE,
   sawReady |-> FALSE, sawDone |-> FALSE]

\* the zero value of bot.BotCommand
ZeroCommand ==
  [Type |-> "", Method |-> "", URL |-> "", JSONPath |-> "", Command |-> "",
   Args |-> << >>, InputType |-> "", OutputType |-> "", Model |-> "",
   MaxTokens |-> 0, Prompt |-> "", Response |-> ""]

\* no command is being executed
IdleRun ==
  [json |-> "ok", c |-> ZeroCommand, loaded |-> FALSE, pc |-> "idle",
   resp |-> "", err |-> "", tmpFiles |-> << >>, disk |-> {}, created |-> {},
   inputPath |-> [stem |-> "", ext |-> ""],
   outputPath |-> [stem |-> "", ext |-> ""], argi |-> 0, orig |-> FALSE,
   reply |-> FALSE, args |-> FALSE, origText |-> FALSE, bg |-> "none",
   posts |-> << >>, failed |-> {}, io |-> {}]

\* no pure function was called
NoCall == [fn |-> "none", body |-> << >>, allowed |-> << >>, catalog |-> {},
           out |-> << >>]

\* the state after run() built the App: nothing received, nothing posted
Start ==
  /\ ReadyChan = FALSE
  /\ evCtxDone = FALSE
  /\ pending = [k \in {} |-> NoStep]
  /\ MessagesDB = {}
  /\ sent = {}
  /\ nextEventID = 1
  /\ continued = {}
  /\ gate = IdleGate
  /\ tasks = {}
  /\ last = NoVerdict

\* no command of the catalog under test is executed in this run
Idle == run = IdleRun /\ call = NoCall

Init ==
  /\ \E s \in Setups : Cfg = s.cfg /\ BotCfg = s.bot
  /\ msgsLeft = MaxMsgs
  /\ vocabulary = [t \in UserTemplates |-> MaxMsgs]
  /\ Start
  /\ Idle

\* one room with every command allowed, a label in config.json
ExchangeConfig ==
  [isNil |-> FALSE,
   RoomIDs |-> << [ID |-> "!a", AllowedCommands |-> Slice(<< >>)] >>,
   BotReplyLabel |-> "[BOT]", DryRun |-> FALSE]

InitExchange ==
  /\ Cfg = ExchangeConfig
  /\ BotCfg = [isNil |-> FALSE, Label |-> ""]
  /\ msgsLeft = MaxExchangeMsgs
  /\ vocabulary = [t \in ExchangeTemplates |->
                     IF t.body = <<"/bot", "kk">> THEN MaxStarts
                     ELSE IF t.body = <<"/bot">> THEN 1
                     ELSE MaxExchangeMsgs]
  /\ Start
  /\ Idle

Next ==
  \/ \E ev \in UserEvents \cup EchoEvents \cup Redelivered :
       HandleMessage(ev)
  \/ Ready
  \/ Cancel
  \/ GateResume
  \/ \E t \in tasks : startKnockKnock(t)
  \/ \E t \in tasks : handleKnockKnockReply(t)
  \/ \E t \in tasks : evict(t)
  \/ \E t \in tasks : FetchBotCommand(t)

Spec == Init /\ [][Next]_vars

SpecExchange == InitExchange /\ [][Next]_vars

\* the executions in which every started goroutine keeps running: the Go
\* scheduler runs each runnable goroutine, and a sleeping cleanup goroutine
\* wakes up after its delay
Fairness ==
  /\ WF_vars(\E t \in tasks : startKnockKnock(t))
  /\ WF_vars(\E t \in tasks : handleKnockKnockReply(t))
  /\ WF_vars(\E t \in tasks : evict(t))
  /\ WF_vars(\E t \in tasks : FetchBotCommand(t))
  /\ WF_vars(GateResume)

InitFair ==
  /\ Cfg = ExchangeConfig
  /\ BotCfg = [isNil |-> FALSE, Label |-> ""]
  /\ msgsLeft = MaxFairMsgs
  /\ vocabulary = [t \in ExchangeTemplates |->
                     IF t.body = <<"/bot">> THEN 1 ELSE MaxFairMsgs]
  /\ Start
  /\ Idle

SpecFair == InitFair /\ [][Next]_vars /\ Fairness

\* ------------------------------------------ the execution of one command

\* the variables of the Router and of the exchange
appVars == << Cfg, BotCfg, ReadyChan, evCtxDone, pending, MessagesDB, sent,
              nextEventID, msgsLeft, vocabulary, continued, gate, tasks,
              last >>

Range(f) == {f[i] : i \in DOMAIN f}

\* the entries of a bot.json: well-formed ones of every kind, and malformed
\* ones (an unknown type, no type, required fields missing)
CatalogEntries ==
  { [ZeroCommand EXCEPT !.Response = "hello"],
    [ZeroCommand EXCEPT !.Type = "http", !.URL = "https://api", !.Response = "pong"],
    [ZeroCommand EXCEPT !.Type = "http", !.URL = "https://api"],
    [ZeroCommand EXCEPT !.Type = "http", !.URL = "https://api",
                        !.JSONPath = "url", !.OutputType = "image"],
    [ZeroCommand EXCEPT !.Type = "exec", !.Command = "fortune", !.Args = <<"-s">>],
    [ZeroCommand EXCEPT !.Type = "exec", !.Command = "convert",
                        !.Args = <<"{input}", "{output}">>,
                        !.InputType = "image", !.OutputType = "image"],
    [ZeroCommand EXCEPT !.Type = "exec", !.Command = "split",
                        !.Args = <<"{output}", "{output}">>,
                        !.OutputType = "image"],
    [ZeroCommand EXCEPT !.Type = "ai", !.Prompt = "reply", !.Model = "m",
                        !.MaxTokens = 300],
    [ZeroCommand EXCEPT !.Type = "ai", !.Prompt = "articles", !.Model = "m",
                        !.MaxTokens = 300],
    [ZeroCommand EXCEPT !.Type = "builtin", !.Command = "yap"],
    [ZeroCommand EXCEPT !.Type = "builtin", !.Command = "uwuify"],
    [ZeroCommand EXCEPT !.Type = "shell", !.Command = "ls"],
    [ZeroCommand EXCEPT !.Type = "static"],
    [ZeroCommand EXCEPT !.Command = "ls"],
    [ZeroCommand EXCEPT !.Type = "http"],
    [ZeroCommand EXCEPT !.Type = "exec", !.Command = "convert",
                        !.Args = <<"{input}">>,
                        !.InputType = "image", !.OutputType = "image"],
    [ZeroCommand EXCEPT !.Type = "builtin", !.Command = "nope"] }

\* validateHttpCommand
validateHttpCommand(cmd) ==
  /\ cmd.URL # ""
  /\ (IF cmd.Method = "" THEN "GET" ELSE cmd.Method)
       \in {"GET", "POST", "PUT", "DELETE", "PATCH"}
  /\ ~(cmd.OutputType = "image" /\ cmd.JSONPath = "")

\* validateExecCommand
validateExecCommand(cmd) ==
  /\ cmd.Command # ""
  /\ Len(cmd.Args) # 0
  /\ ~(cmd.InputType = "image" /\ ~InSlice(cmd.Args, "{input}"))
  /\ ~(cmd.OutputType = "image" /\ ~InSlice(cmd.Args, "{output}"))

\* validateAiCommand
validateAiCommand(cmd) ==
  /\ cmd.Prompt # ""
  /\ cmd.Model # ""
  /\ cmd.MaxTokens > 0

\* validateBuiltinCommand
validateBuiltinCommand(cmd) == cmd.Command # ""

\* validateCommand: TRUE when the test reports no error for the entry
validateCommand(cmd) ==
  IF cmd.Response # "" THEN TRUE
  ELSE IF cmd.Type = "" THEN FALSE
  ELSE IF cmd.Type \notin {"http", "exec", "ai", "builtin"} THEN FALSE
  ELSE /\ CASE cmd.Type = "http"    -> validateHttpCommand(cmd)
            [] cmd.Type = "exec"    -> validateExecCommand(cmd)
            [] cmd.Type = "ai"      -> validateAiCommand(cmd)
            [] cmd.Type = "builtin" -> validateBuiltinCommand(cmd)
       /\ cmd.InputType \in {"", "none", "text", "image"}
       /\ cmd.OutputType \in {"", "text", "image"}

\* a message the execution posted: by the handler, by the goroutine the
\* handler started, or by the goroutine of dispatchBotCommand ("router");
\* a reply to the invoking event or to the event that one replies to
Posted(by, kind, replyTo) == [by |-> by, kind |-> kind, replyTo |-> replyTo]

\* return resp, err from bot.FetchBotCommand
Return(r, resp, err) ==
  [r EXCEPT !.resp = resp, !.err = err, !.pc = "returned",
            !.failed = IF err = "" THEN r.failed ELSE r.failed \cup {err}]

\* the deferred function of handleExecCommand: os.Remove of every name in
\* tmpFiles
Cleanup(r) == r.disk \ Range(r.tmpFiles)

\* return resp, err from handleExecCommand: the deferred cleanup runs
ExecReturn(r, resp, err) == [Return(r, resp, err) EXCEPT !.disk = Cleanup(r)]

\* an entry without the Response shortcut
NoStaticResponse(c) == FALSE

\* the entry is answered with its literal text
StaticResponse(c) == c.Response # ""

\* LoadBotConfig: the file opens and decodes
Loads(json, c) == json = "ok"

\* bot.LoadBotConfig, called by run(): on an error the bot continues without
\* a catalog and executes nothing
LoadBotConfig ==
  /\ run.pc = "load"
  /\ run' = IF Loads(run.json, run.c)
              THEN [run EXCEPT !.loaded = TRUE, !.pc = "dispatch"]
              ELSE [run EXCEPT !.pc = "done"]
  /\ UNCHANGED << appVars, call >>

\* bot.FetchBotCommand: the literal response, or the handler of the type
Execute ==
  /\ run.pc = "dispatch"
  /\ run' =
       IF StaticResponse(run.c) THEN Return(run, run.c.Response, "")
       ELSE CASE run.c.Type = "http"    -> [run EXCEPT !.pc = "http"]
              [] run.c.Type = "exec"    -> [run EXCEPT !.pc = "exec.input"]
              [] run.c.Type = "ai"      -> [run EXCEPT !.pc = "ai"]
              [] run.c.Type = "builtin" -> [run EXCEPT !.pc = "builtin"]
              [] OTHER -> Return(run, "", "unknown command type")
  /\ UNCHANGED << appVars, call >>

\* what the request of handleHttpCommand can end in: an error of the request
\* or of the client (its Timeout is 8 s), a status outside 2xx, or a body
HttpResults ==
  {"request error", "unexpected status", "read error", "plain body",
   "empty body", "not json", "json string", "json array", "json value",
   "no value found at path"}

\* handleHttpCommand; ct tells whether the Content-Type is application/json
handleHttpCommand ==
  /\ run.pc = "http"
  /\ \E res \in HttpResults, ct \in BOOLEAN :
       LET r == [run EXCEPT !.io = run.io \cup {"network"}]
           json == run.c.JSONPath # "" \/ ct
       IN run' =
            IF res \in {"request error", "unexpected status", "read error"}
              THEN Return(r, "", res)
            ELSE IF res = "empty body" THEN Return(r, "", "")
            ELSE IF ~json \/ res \in {"plain body", "not json"}
              THEN Return(r, "text", "")
            ELSE IF res = "json string"
              THEN IF run.c.OutputType = "image"
                     THEN [Return(r, "", "") EXCEPT !.bg = "download"]
                     ELSE Return(r, "text", "")
            ELSE IF res \in {"json array", "json value"}
              THEN Return(r, "text", "")
            ELSE Return(r, "", res)
  /\ UNCHANGED << appVars, call >>

\* downloadExternalImage, called by the goroutine handleHttpCommand starts:
\* http.Get returns (the default client has no timeout); an error is logged
downloadExternalImage ==
  /\ run.bg = "download"
  /\ \E ok \in BOOLEAN :
       run' = IF ok THEN [run EXCEPT !.bg = "upload"]
              ELSE [run EXCEPT !.bg = "done",
                               !.failed = run.failed \cup {"image download"}]
  /\ UNCHANGED << appVars, call >>

\* the goroutine handleHttpCommand starts, after the download:
\* matrix.SendImageToMatrix(context.Background(), ...); an error is logged
httpImage ==
  /\ run.bg = "upload"
  /\ \E ok \in BOOLEAN :
       run' = IF ok
                THEN [run EXCEPT !.bg = "done",
                        !.posts = Append(run.posts,
                                    Posted("goroutine", "image", "invoking"))]
              ELSE [run EXCEPT !.bg = "done",
                               !.failed = run.failed \cup {"image upload"}]
  /\ UNCHANGED << appVars, call >>

\* a file name: what os.CreateTemp chose, and the extension
File(stem, ext) == [stem |-> stem, ext |-> ext]

\* the values matrix.DetectImageExtension returns
ImageExtensions == {".jpg", ".png", ".gif", ".webp"}

\* a rename that does not record the new name
RenamedUntracked(r, ext) ==
  LET old == File("exec_input_1", ".tmp")
      new == File("exec_input_1", ext)
  IN [r EXCEPT !.disk = (r.disk \ {old}) \cup {new},
               !.created = r.created \cup {new},
               !.inputPath = new]

\* os.Rename(tmpFile.Name(), newName) succeeded: the new name is the input
\* path and is appended to tmpFiles
Renamed(r, ext) ==
  LET old == File("exec_input_1", ".tmp")
      new == File("exec_input_1", ext)
  IN [r EXCEPT !.disk = (r.disk \ {old}) \cup {new},
               !.created = r.created \cup {new},
               !.inputPath = new,
               !.tmpFiles = Append(r.tmpFiles, new)]

\* handleExecCommand: the input image is downloaded into a temporary file,
\* every {output} argument gets one, the program runs (cmdRun), and its
\* output file is sent or its stdout returned
handleExecCommand ==
  /\ run.pc \in {"exec.input", "exec.write", "exec.args", "exec.failed",
                 "exec.exited"}
  /\ UNCHANGED << appVars, call >>
  /\ \/ /\ run.pc = "exec.input"
        /\ run.c.InputType # "image"
        /\ run' = [run EXCEPT !.pc = "exec.args", !.argi = 1]
     \/ /\ run.pc = "exec.input"
        /\ run.c.InputType = "image"
        /\ \E res \in {"no image found", "fetch replied-to message",
                       "no media URL", "download image",
                       "create temp input", "created"} :
             LET r == [run EXCEPT !.io = run.io \cup {"network"}]
                 in == File("exec_input_1", ".tmp")
             IN run' =
                  IF res = "no image found"
                    THEN ExecReturn(r, "reply to an image to use this command", "")
                  ELSE IF res = "fetch replied-to message"
                    THEN ExecReturn([r EXCEPT !.failed = r.failed \cup {res}],
                                    "reply to an image to use this command", "")
                  ELSE IF res # "created" THEN ExecReturn(r, "", res)
                  ELSE [r EXCEPT !.pc = "exec.write",
                                 !.tmpFiles = Append(r.tmpFiles, in),
                                 !.disk = r.disk \cup {in},
                                 !.created = r.created \cup {in}]
     \/ /\ run.pc = "exec.write"
        /\ \E res \in {"write image data", "rename failed", "renamed"},
              ext \in ImageExtensions :
             run' =
               IF res = "write image data" THEN ExecReturn(run, "", res)
               ELSE IF res = "rename failed"
                 THEN [run EXCEPT !.pc = "exec.args", !.argi = 1,
                                  !.inputPath = File("exec_input_1", ".tmp")]
               ELSE [Renamed(run, ext) EXCEPT !.pc = "exec.args", !.argi = 1]
     \/ /\ run.pc = "exec.args"
        /\ run.argi <= Len(run.c.Args)
        /\ run.c.Args[run.argi] # "{output}"
        /\ run' = [run EXCEPT !.argi = run.argi + 1]
     \/ /\ run.pc = "exec.args"
        /\ run.argi <= Len(run.c.Args)
        /\ run.c.Args[run.argi] = "{output}"
        /\ \E ok \in BOOLEAN :
             LET out == File("exec_output", "")
                 name == [out EXCEPT !.stem = IF run.argi = 1 THEN "exec_output_1"
                                              ELSE "exec_output_2"]
             IN run' =
                  IF ~ok THEN ExecReturn(run, "", "create output file")
                  ELSE [run EXCEPT !.argi = run.argi + 1,
                                   !.outputPath = name,
                                   !.tmpFiles = Append(run.tmpFiles, name),
                                   !.disk = run.disk \cup {name},
                                   !.created = run.created \cup {name}]
     \/ /\ run.pc = "exec.args"
        /\ run.argi > Len(run.c.Args)
        /\ run' = [run EXCEPT !.pc = "exec.run",
                              !.io = run.io \cup {"subprocess"}]
     \/ /\ run.pc = "exec.failed"
        /\ run' = ExecReturn(run, "", "exec failed")
     \/ /\ run.pc = "exec.exited"
        /\ run.c.OutputType # "image"
        /\ run' = ExecReturn(run, run.resp, "")
     \/ /\ run.pc = "exec.exited"
        /\ run.c.OutputType = "image"
        /\ \E sendOK \in SendOutcomes :
             run' =
               IF run.outputPath \notin run.disk
                 THEN ExecReturn(run, "", "read processed image")
               ELSE IF ~sendOK
                 THEN ExecReturn([run EXCEPT !.io = run.io \cup {"network"}],
                                 "", "send image")
               ELSE ExecReturn(
                      [run EXCEPT !.io = run.io \cup {"network", "post"},
                                  !.posts = Append(run.posts,
                                    Posted("handler", "image", "invoking"))],
                      "", "")

\* cmd.Run() of handleExecCommand returns: the program has exited, with
\* its stdout, and it has written its output file or removed it
cmdRun ==
  /\ run.pc = "exec.run"
  /\ \E res \in {"exec.failed", "exec.exited"}, stdout \in {"text", ""},
        kept \in BOOLEAN :
       run' = [run EXCEPT !.pc = res, !.resp = stdout,
                 !.disk = IF kept THEN run.disk ELSE run.disk \ {run.outputPath}]
  /\ UNCHANGED << appVars, call >>

\* a handler that never posts the response itself
NoOwnReply(r) == FALSE

\* handleAiCommand posts the response itself when originalEventID is set:
\* the message the command replies to was fetched and is a message
SendsOwnReply(r) == r.orig

\* handleAiCommand: the text to answer (the articles, or the message and the
\* one it replies to), callGroq, and a direct reply to the replied-to message
\* when there is one
handleAiCommand ==
  /\ run.pc \in {"ai", "ai.groq"}
  /\ UNCHANGED << appVars, call >>
  /\ \/ /\ run.pc = "ai"
        /\ run.c.Prompt = "articles"
        /\ \E res \in {"fetch articles", "no articles", "articles"} :
             LET r == [run EXCEPT !.io = run.io \cup {"network"}]
             IN run' = IF res = "fetch articles" THEN Return(r, "", res)
                       ELSE IF res = "no articles"
                         THEN Return(r, "No articles to summarize.", "")
                       ELSE [r EXCEPT !.pc = "ai.groq"]
     \/ /\ run.pc = "ai"
        /\ run.c.Prompt # "articles"
        /\ \E res \in IF run.reply
                       THEN {"not a message event", "fetch failed", "fetched"}
                       ELSE {"not a message event", "no reply"} :
             run' = IF res = "not a message event" THEN Return(run, "", res)
                    ELSE IF res = "no reply" THEN [run EXCEPT !.pc = "ai.groq"]
                    ELSE [run EXCEPT !.pc = "ai.groq",
                                     !.io = run.io \cup {"network"},
                                     !.orig = (res = "fetched")]
     \/ /\ run.pc = "ai.groq"
        /\ \E res \in {"GROQ_API_KEY not set", "groq api",
                       "no response from groq", "text", ""},
              sendOK \in SendOutcomes :
             LET r == [run EXCEPT !.io = run.io \cup
                         (IF res = "text" THEN {"network", "completion"}
                          ELSE {"network"})]
             IN run' =
                  IF res \notin {"text", ""} THEN Return(r, "", res)
                  ELSE IF ~SendsOwnReply(run) THEN Return(r, res, "")
                  ELSE IF ~sendOK THEN Return(r, "", "send reply")
                  ELSE Return([r EXCEPT !.io = r.io \cup {"post"},
                                 !.posts = Append(r.posts,
                                    Posted("handler", "text", "original"))],
                              "", "")

\* a handleBuiltinCommand that looks at the arguments of the body first
ArgsFirst(origText, args) ==
  IF args THEN "args" ELSE IF origText THEN "original" ELSE ""

\* handleBuiltinCommand: the text that is transformed: the body of the
\* replied-to message when it was fetched and is not empty, else the fields
\* of the body after the second one, else none
BuiltinTarget(origText, args) ==
  IF origText THEN "original" ELSE IF args THEN "args" ELSE ""

\* bot.Uwuify of the one text or the other
Uwuify(text) ==
  IF text = "original" THEN "Uwuify(original)" ELSE "Uwuify(args)"

\* handleBuiltinCommand: QueryTopYappers for yap (it posts the leaderboard
\* itself), else the text transformation of builtinFuncs
handleBuiltinCommand ==
  /\ run.pc = "builtin"
  /\ UNCHANGED << appVars, call >>
  /\ \/ /\ run.c.Command = "yap"
        /\ \E res \in {"not a message event", "no database available",
                       "query yappers", "no messages found today", "entries"},
              sendOK \in SendOutcomes :
             LET r == [run EXCEPT !.io = run.io \cup {"storage"}]
             IN run' =
                  IF res = "not a message event" THEN Return(run, "", res)
                  ELSE IF res \in {"no database available", "query yappers"}
                    THEN Return(r, "", res)
                  ELSE IF res = "no messages found today"
                    THEN Return(r, res, "")
                  ELSE IF ~sendOK
                    THEN Return([r EXCEPT !.io = r.io \cup {"network"}],
                                "", "send yap reply")
                  ELSE Return([r EXCEPT !.io = r.io \cup {"network", "post"},
                                 !.posts = Append(r.posts,
                                    Posted("handler", "leaderboard", "invoking"))],
                              "", "")
     \/ /\ run.c.Command # "yap"
        /\ \E res \in IF run.reply
                       THEN {"not a message event", "fetch failed",
                             "fetched nothing", "fetched"}
                       ELSE {"not a message event", "no reply"} :
             LET r == [run EXCEPT
                         !.io = IF run.reply THEN run.io \cup {"network"}
                                ELSE run.io,
                         !.origText = (res = "fetched")]
                 targetText == BuiltinTarget(res = "fetched", run.args)
             IN run' =
                  IF res = "not a message event" THEN Return(run, "", res)
                  ELSE IF targetText = ""
                    THEN Return(r, "uwu~ pwease give me some text to twansfowm!", "")
                  ELSE IF run.c.Command # "uwuify"
                    THEN Return(r, "", "unknown builtin")
                  ELSE Return(r, Uwuify(targetText), "")

\* a goroutine that always posts
ReplyAlways(resp, err) ==
  IF err # "" THEN "sorry, couldn't execute"
  ELSE IF resp # "" THEN resp
  ELSE "done"

\* the goroutine of dispatchBotCommand after bot.FetchBotCommand returned:
\* the body it posts, "" when it posts nothing
ReplyBody(resp, err) ==
  IF err # "" THEN "sorry, couldn't execute"
  ELSE IF resp # "" THEN resp
  ELSE ""

\* the goroutine of dispatchBotCommand posts the response or the error reply
\* with SendBotReply, or returns when the response is empty
Reply ==
  /\ run.pc = "returned"
  /\ \E sendOK \in SendOutcomes :
       LET body == ReplyBody(run.resp, run.err)
       IN run' =
            IF body = "" THEN [run EXCEPT !.pc = "done"]
            ELSE IF ~sendOK
              THEN [run EXCEPT !.pc = "done",
                               !.failed = run.failed \cup {"send response"}]
            ELSE [run EXCEPT !.pc = "done",
                    !.posts = Append(run.posts,
                                    Posted("router", IF run.err # "" THEN "sorry" ELSE "text", "invoking"))]
  /\ UNCHANGED << appVars, call >>

\* bot.json is missing, is not JSON, or holds one entry; the message that
\* invokes the command replies to another message or to none
InitExecutor ==
  /\ Cfg = ExchangeConfig
  /\ BotCfg = [isNil |-> FALSE, Label |-> ""]
  /\ msgsLeft = 0
  /\ vocabulary = [t \in ExchangeTemplates |-> 0]
  /\ Start
  /\ call = NoCall
  /\ \E j \in {"ok", "missing", "garbled"}, c \in CatalogEntries,
        rp \in BOOLEAN, a \in BOOLEAN :
       run = [IdleRun EXCEPT !.json = j, !.c = c, !.pc = "load", !.reply = rp,
                             !.args = a]

NextExecutor ==
  \/ LoadBotConfig
  \/ Execute
  \/ handleHttpCommand
  \/ downloadExternalImage
  \/ httpImage
  \/ handleExecCommand
  \/ cmdRun
  \/ handleAiCommand
  \/ handleBuiltinCommand
  \/ Reply

SpecExecutor == InitExecutor /\ [][NextExecutor]_vars

\* the executions in which the goroutines of a command keep running and every
\* call that has a timeout returns; the program started by cmd.Run() and the
\* server http.Get talks to are not bound to answer
FairnessExecutor ==
  /\ WF_vars(LoadBotConfig)
  /\ WF_vars(Execute)
  /\ WF_vars(handleHttpCommand)
  /\ WF_vars(httpImage)
  /\ WF_vars(handleExecCommand)
  /\ WF_vars(handleAiCommand)
  /\ WF_vars(handleBuiltinCommand)
  /\ WF_vars(Reply)

SpecExecutorFair == InitExecutor /\ [][NextExecutor]_vars /\ FairnessExecutor

\* ------------------------------------------- the functions of the Router

\* the sequences over S of length at most n
Seqs(S, n) == UNION {[1..k -> S] : k \in 0..n}

\* the fields of the bodies: the prefixes, longer words that start with
\* them, and command names
BodyFields == {"/bot", "/botany", "@gork", "@gorky", "kk", "help", "hi"}

\* the bodies dispatchBotCommand is called with
CommandBodies ==
  {b \in Seqs(BodyFields, MaxBodyLen) : HasPrefix(b, "/bot") \/ HasPrefix(b, "@gork")}

\* the catalogs and the allow-lists GenerateHelpMessage is called with
Catalogs == SUBSET {"hi", "kk", "run", "yap"}
AllowLists == Seqs({"gork", "help", "hi", "kk", "run"}, MaxAllowed)

\* a call that has not returned yet
Called(fn, body, catalog, allowed) ==
  [fn |-> fn, body |-> body, allowed |-> allowed, catalog |-> catalog,
   out |-> << >>]

\* dispatchBotCommand resolves the command name of the body
ResolveName ==
  /\ call.fn = "CommandName"
  /\ call' = [call EXCEPT !.fn = "cmd", !.out = <<CommandName(call.body)>>]
  /\ UNCHANGED << appVars, run >>

\* dispatchBotCommand generates the help message
Help ==
  /\ call.fn = "GenerateHelpMessage"
  /\ call' = [call EXCEPT !.fn = "help",
                 !.out = GenerateHelpMessage(call.catalog, call.allowed)]
  /\ UNCHANGED << appVars, run >>

\* the context text of handleAiCommand for a message that replies to
\* nothing: the body without its first two fields, or the whole body when it
\* has fewer than two
TargetText(body) ==
  IF Len(body) >= 2 THEN SubSeq(body, 3, Len(body)) ELSE body

\* handleAiCommand derives the context text from the body
Context ==
  /\ call.fn = "TargetText"
  /\ call' = [call EXCEPT !.fn = "context", !.out = TargetText(call.body)]
  /\ UNCHANGED << appVars, run >>

\* a body whose command name is to be resolved, or a catalog and an
\* allow-list the help message is to be generated for
InitRouter ==
  /\ Cfg = ExchangeConfig
  /\ BotCfg = [isNil |-> FALSE, Label |-> ""]
  /\ msgsLeft = 0
  /\ vocabulary = [t \in ExchangeTemplates |-> 0]
  /\ Start
  /\ run = IdleRun
  /\ \/ \E b \in CommandBodies : call = Called("CommandName", b, {}, << >>)
     \/ \E b \in CommandBodies : call = Called("TargetText", b, {}, << >>)
     \/ \E c \in Catalogs, a \in AllowLists :
          call = Called("GenerateHelpMessage", << >>, c, a)

NextRouter == ResolveName \/ Help \/ Context

SpecRouter == InitRouter /\ [][NextRouter]_vars

\* ------------------------------------------------------- the leaderboard

\* A text is a sequence of pieces; a piece is a run of white space of one
\* character or a whole field, and two fields are never adjacent.
WhiteSpace == {" ", "\t"}

\* strings.Fields
Fields(text) ==
  LET IsField(p) == p \notin WhiteSpace IN SelectSeq(text, IsField)

\* strings.TrimSpace
RECURSIVE TrimLeft(_)
TrimLeft(text) ==
  IF text # << >> /\ Head(text) \in WhiteSpace
    THEN TrimLeft(Tail(text)) ELSE text

RECURSIVE TrimRight(_)
TrimRight(text) ==
  IF text # << >> /\ text[Len(text)] \in WhiteSpace
    THEN TrimRight(SubSeq(text, 1, Len(text) - 1)) ELSE text

TrimSpace(text) == TrimRight(TrimLeft(text))

\* strconv.Atoi of a sequence of characters: an optional sign and decimal
\* digits; a numeral of more than 19 digits does not fit an int (the
\* numerals of the model have at most two digits, or twenty)
Digits == <<"0", "1", "2", "3", "4", "5", "6", "7", "8", "9">>

RECURSIVE Value(_)
Value(ds) ==
  IF ds = << >> THEN 0
  ELSE 10 * Value(SubSeq(ds, 1, Len(ds) - 1))
         + (CHOOSE d \in 0..9 : Digits[d + 1] = ds[Len(ds)])

Atoi(s) ==
  LET signed == s # << >> /\ s[1] \in {"-", "+"}
      ds == IF signed THEN Tail(s) ELSE s
  IN IF ds = << >> \/ \E i \in DOMAIN ds : ds[i] \notin Range(Digits)
       THEN [ok |-> FALSE, n |-> 0]
     ELSE IF Len(ds) > 19 THEN [ok |-> FALSE, n |-> 0]
     ELSE [ok |-> TRUE, n |-> IF s[1] = "-" THEN 0 - Value(ds) ELSE Value(ds)]

\* QueryTopYappers with a limit that is not capped
LimitUncapped(args) ==
  LET a == Atoi(TrimSpace(args))
  IN IF args # << >> /\ a.ok /\ a.n > 0 THEN a.n ELSE 5

\* QueryTopYappers: the limit of the listing
Limit(args) ==
  LET a == Atoi(TrimSpace(args))
      limit == IF args # << >> /\ a.ok /\ a.n > 0 THEN a.n ELSE 5
  IN IF limit > 50 THEN 50 ELSE limit

\* QueryTopYappers: the arguments ask for the "guess" subcommand
IsGuess(args) ==
  LET trimmed == TrimSpace(args) IN trimmed # << >> /\ trimmed[1] = "guess"

\* QueryTopYappers: the argument handed to queryYapGuess
GuessArg(args) == TrimSpace(Tail(TrimSpace(args)))

\* queryYapGuess with a guess that is taken as it is parsed
GuessAsParsed(guessArg) ==
  LET a == Atoi(TrimSpace(guessArg)) IN IF a.ok THEN a.n ELSE 1

\* queryYapGuess: the guessed position
Guess(guessArg) ==
  LET a == Atoi(TrimSpace(guessArg))
  IN IF guessArg # << >> /\ a.ok /\ a.n > 0 THEN a.n ELSE 1

\* the word count of the query: the number of spaces of the body, plus one
WordCount(body) == Cardinality({i \in DOMAIN body : body[i] = " "}) + 1

\* the WHERE clause of the query
Selected(row, roomID) ==
  /\ row.room_id = roomID
  /\ row.today
  /\ ~(row.body # << >> /\ row.body[1] = "[BOT]")
  /\ ~(Len(row.body) >= 2 /\ row.body[1] = "/bot" /\ row.body[2] = " ")
  /\ row.msgtype = "m.text"

\* SUM(word count) of the rows of one sender
RECURSIVE SumWords(_, _)
SumWords(rows, sender) ==
  IF rows = << >> THEN 0
  ELSE (IF Head(rows).sender = sender THEN WordCount(Head(rows).body) ELSE 0)
         + SumWords(Tail(rows), sender)

\* GROUP BY sender: the word count of every sender with a selected row
Grouped(rows, roomID) ==
  LET InQuery(r) == Selected(r, roomID)
      sel == SelectSeq(rows, InQuery)
  IN [s \in {sel[i].sender : i \in DOMAIN sel} |-> SumWords(sel, s)]

\* ORDER BY word_count DESC: the result sets the query may return (the
\* order of senders with equal counts is not specified)
Ordered(groups) ==
  LET n == Cardinality(DOMAIN groups)
      orders == {p \in [1..n -> DOMAIN groups] :
                   \A i, j \in 1..n :
                     i < j => p[i] # p[j] /\ groups[p[i]] >= groups[p[j]]}
  IN {[i \in 1..n |-> [sender |-> p[i], count |-> groups[p[i]]]] : p \in orders}

\* queryYapGuess with the two directions exchanged
DirectionSwapped(diff) == IF diff > 0 THEN "higher" ELSE "lower"

\* queryYapGuess: the direction named in the message
Direction(diff) == IF diff > 0 THEN "lower" ELSE "higher"

\* the result of a call that has not returned yet
NoResult ==
  [kind |-> "none", limit |-> 0, entries |-> << >>, guess |-> 0,
   actualPos |-> 0, totalWords |-> 0, absDiff |-> 0, direction |-> ""]

\* QueryTopYappers without the "guess" subcommand
QueryTopYappers ==
  /\ call.fn = "QueryTopYappers"
  /\ call.db.isNil \/ ~IsGuess(call.args)
  /\ IF call.db.isNil
       THEN call' = [call EXCEPT !.fn = "returned",
                        !.out = [NoResult EXCEPT !.kind = "no database available"]]
       ELSE \E rows \in Ordered(Grouped(call.db.rows, call.ev.room)) :
              LET limit == Limit(call.args)
                  entries == SubSeq(rows, 1, Min(limit, Len(rows)))
              IN call' = [call EXCEPT !.fn = "returned",
                            !.out = [NoResult EXCEPT
                               !.kind = IF entries = << >>
                                          THEN "no messages found today"
                                          ELSE "top yappers (today)",
                               !.limit = limit,
                               !.entries = entries]]
  /\ UNCHANGED << appVars, run >>

\* QueryTopYappers with the "guess" subcommand
queryYapGuess ==
  /\ call.fn = "QueryTopYappers"
  /\ ~call.db.isNil
  /\ IsGuess(call.args)
  /\ \E rows \in Ordered(Grouped(call.db.rows, call.ev.room)) :
       LET guess == Guess(GuessArg(call.args))
           at == {i \in DOMAIN rows : rows[i].sender = call.ev.sender}
           actualPos == IF at = {} THEN 0 ELSE CHOOSE i \in at : TRUE
           diff == guess - actualPos
       IN call' = [call EXCEPT !.fn = "returned",
                     !.out = IF actualPos = 0
                       THEN [NoResult EXCEPT
                               !.kind = "you have no messages today!",
                               !.entries = rows, !.guess = guess]
                       ELSE [NoResult EXCEPT
                               !.kind = IF diff = 0 THEN "that's exactly right!"
                                        ELSE "than you thought",
                               !.entries = rows,
                               !.guess = guess,
                               !.actualPos = actualPos,
                               !.totalWords = rows[actualPos].count,
                               !.absDiff = IF diff > 0 THEN diff ELSE 0 - diff,
                               !.direction = IF diff = 0 THEN ""
                                             ELSE Direction(diff)]]
  /\ UNCHANGED << appVars, run >>

\* a row of the messages table; today: ts_ms is not before startOfToday()
Row(sender, room, today, body, msgtype) ==
  [sender |-> sender, room_id |-> room, today |-> today, body |-> body,
   msgtype |-> msgtype]

\* the rows of the tables: two-word messages of any room, time and type, and
\* text messages of today in the room of the call with a body of one word,
\* with white space other than single spaces, with a reply label in front,
\* or with a command prefix in front
TableRows ==
  {Row(s, r, t, <<"w", " ", "w">>, m) :
     s \in {"@alice", "@bob"}, r \in {"!a", "!b"}, t \in BOOLEAN,
     m \in {"m.text", "m.image"}}
  \cup
  {Row(s, "!a", TRUE, b, "m.text") :
     s \in {"@alice", "@bob"},
     b \in {<<"w">>, <<"w", " ", " ", "w">>, <<"w", "\t", "w">>,
            <<"[BOT]", " ", "w">>, <<"[ASH]", " ", "w">>,
            <<"/bot", " ", "kk">>, <<"/bot">>, <<"@gork", " ", "w">>}}

\* the table of TestQueryYapGuess: alice 10 words, bob 6, carol 1
ExampleTable ==
  [i \in 1..5 |-> Row("@alice", "!a", TRUE, <<"w", " ", "w">>, "m.text")]
  \o [i \in 1..3 |-> Row("@bob", "!a", TRUE, <<"w", " ", "w">>, "m.text")]
  \o << Row("@carol", "!a", TRUE, <<"w">>, "m.text") >>

\* the databases of the calls: none, or a table of at most MaxRows rows, or
\* the table of the test
Databases ==
  {[isNil |-> TRUE, rows |-> << >>]}
  \cup {[isNil |-> FALSE, rows |-> t] :
          t \in Seqs(TableRows, MaxRows) \cup {ExampleTable}}

\* the arguments of "/bot yap": a limit, or "guess" and a position
LimitArgs ==
  {<< >>, <<"x">>, <<"0">>, <<"-", "1">>, <<"1">>, <<"2">>, <<"6", "0">>,
   <<"2", " ", "3">>, [i \in 1..20 |-> "9"]}
GuessArgs ==
  {<<"guess">>, <<"guess", " ", "x">>, <<"guess", " ", "0">>,
   <<"guess", " ", "1">>, <<"guess", " ", "2">>, <<"guess", " ", "3">>}

\* handleBuiltinCommand calls the function of "yap" for an event of room
\* "!a" with the arguments of the body and the resolved reply label
InitLeaderboard ==
  /\ Cfg = ExchangeConfig
  /\ BotCfg = [isNil |-> FALSE, Label |-> ""]
  /\ msgsLeft = 0
  /\ vocabulary = [t \in ExchangeTemplates |-> 0]
  /\ Start
  /\ run = IdleRun
  /\ \E db \in Databases, l \in {"[BOT]", "[ASH]"} :
       \/ \E a \in LimitArgs :
            call = [fn |-> "QueryTopYappers", db |-> db, args |-> a,
                    ev |-> [room |-> "!a", sender |-> "@alice"],
                    replyLabel |-> l, out |-> NoResult]
       \/ \E a \in GuessArgs, s \in {"@alice", "@bob", "@carol"} :
            call = [fn |-> "QueryTopYappers", db |-> db, args |-> a,
                    ev |-> [room |-> "!a", sender |-> s],
                    replyLabel |-> l, out |-> NoResult]

NextLeaderboard == QueryTopYappers \/ queryYapGuess

SpecLeaderboard == InitLeaderboard /\ [][NextLeaderboard]_vars

\* ------------------------------------------------------------ the helpers

\* A JSON value as json.Unmarshal decodes it into an interface{}: nil, a
\* string, a []interface{} or a map[string]interface{}.  A key of an object
\* and a segment of a path are sequences of characters.
JNil == [kind |-> "nil", s |-> "", items |-> << >>, members |-> << >>]
JString(s) == [JNil EXCEPT !.kind = "string", !.s = s]
JArray(items) == [JNil EXCEPT !.kind = "array", !.items = items]
JObject(members) == [JNil EXCEPT !.kind = "object", !.members = members]

\* the verb %d of fmt.Sscanf: an optional sign and the digits the segment
\* begins with; what follows them is not read
RECURSIVE DigitPrefix(_)
DigitPrefix(s) ==
  IF s # << >> /\ Head(s) \in Range(Digits)
    THEN <<Head(s)>> \o DigitPrefix(Tail(s)) ELSE << >>

Sscanf(p) ==
  LET signed == p # << >> /\ p[1] \in {"-", "+"}
      ds == DigitPrefix(IF signed THEN Tail(p) ELSE p)
  IN IF ds = << >> THEN [ok |-> FALSE, n |-> 0]
     ELSE [ok |-> TRUE, n |-> IF p[1] = "-" THEN 0 - Value(ds) ELSE Value(ds)]

\* the loop of ExtractJSONPath over the segments of strings.Split(path, ".")
RECURSIVE Walk(_, _)
Walk(cur, segments) ==
  IF segments = << >> THEN cur
  ELSE IF cur.kind = "object"
    THEN Walk(IF Head(segments) \in DOMAIN cur.members
                THEN cur.members[Head(segments)] ELSE JNil,
              Tail(segments))
  ELSE IF cur.kind = "array"
    THEN LET idx == Sscanf(Head(segments))
         IN IF idx.ok /\ idx.n >= 0 /\ idx.n < Len(cur.items)
              THEN Walk(cur.items[idx.n + 1], Tail(segments))
              ELSE JNil
  ELSE JNil

\* util.ExtractJSONPath; the empty path is the empty sequence of segments
ExtractJSONPath(root, path) == IF path = << >> THEN root ELSE Walk(root, path)

\* strings.LastIndex of a character: the index from 0, or -1
LastIndex(text, c) ==
  LET at == {i \in DOMAIN text : text[i] = c}
  IN IF at = {} THEN 0 - 1 ELSE (CHOOSE i \in at : \A j \in at : j <= i) - 1

\* a TruncateText that cuts at maxChars and nowhere else
TruncateTextHard(text, tokenLimit) ==
  IF Len(text) \div 4 <= tokenLimit THEN text
  ELSE SubSeq(text, 1, tokenLimit * 4)

\* util.TruncateText
TruncateText(text, tokenLimit) ==
  LET estimated == Len(text) \div 4
      maxChars == tokenLimit * 4
      cut == IF Len(text) > maxChars THEN SubSeq(text, 1, maxChars) ELSE text
  IN IF estimated <= tokenLimit THEN text
     ELSE IF LastIndex(cut, "\n") > maxChars \div 2
       THEN SubSeq(cut, 1, LastIndex(cut, "\n"))
     ELSE IF LastIndex(cut, " ") > maxChars \div 2
       THEN SubSeq(cut, 1, LastIndex(cut, " "))
     ELSE cut

\* the call of a helper that has not returned yet, and its result
NoHelperCall ==
  [fn |-> "none", root |-> JNil, path |-> << >>, text |-> << >>,
   tokenLimit |-> 0, cfg |-> [isNil |-> TRUE, BotReplyLabel |-> ""],
   botCfg |-> [isNil |-> TRUE, Label |-> ""],
   value |-> JNil, truncated |-> << >>, label |-> ""]

\* handleHttpCommand extracts the value at the JSON path
Extract ==
  /\ call.fn = "ExtractJSONPath"
  /\ call' = [call EXCEPT !.fn = "extracted",
                          !.value = ExtractJSONPath(call.root, call.path)]
  /\ UNCHANGED << appVars, run >>

\* handleAiCommand truncates the context text
Truncate ==
  /\ call.fn = "TruncateText"
  /\ call' = [call EXCEPT !.fn = "truncated",
                          !.truncated = TruncateText(call.text, call.tokenLimit)]
  /\ UNCHANGED << appVars, run >>

\* run resolves the reply label
ResolveLabel ==
  /\ call.fn = "ResolveReplyLabel"
  /\ call' = [call EXCEPT !.fn = "resolved",
                          !.label = ResolveReplyLabel(call.cfg, call.botCfg)]
  /\ UNCHANGED << appVars, run >>

\* the JSON values of the calls: strings and null, arrays and objects of
\* them, and arrays and objects that hold one of those
Roots ==
  LET PathKeys == {<<"a">>, <<"1">>}
      Leaves == {JNil, JString("s")}
      Flat ==
        {JArray(q) : q \in Seqs(Leaves, 2)}
        \cup {JObject(f) :
                f \in UNION {[ks -> Leaves] : ks \in SUBSET PathKeys}}
  IN Leaves \cup Flat
     \cup {JArray(<<JString("t"), v>>) : v \in Flat}
     \cup {JObject([k \in {<<"a">>} |-> v]) : v \in Flat}

\* the texts of the calls: at most MaxText characters, and texts of MaxText
\* characters followed by four letters
Texts ==
  LET TextChars == {"a", " ", "\n"}
  IN Seqs(TextChars, MaxText)
     \cup {t \o <<"a", "a", "a", "a">> : t \in [1..MaxText -> TextChars]}

\* a helper is about to be called.  The paths of ExtractJSONPath have at most
\* MaxPath segments, each a key, an index, an index followed by a letter, a
\* negative number or a letter; ResolveReplyLabel is called with a nil or a
\* non-nil configuration of either kind, with and without a label
InitHelpers ==
  LET PathSegments ==
        {<<"a">>, <<"0">>, <<"1">>, <<"2">>, <<"1", "x">>, <<"-", "1">>,
         <<"x">>}
      LabelConfigs ==
        {[isNil |-> TRUE, BotReplyLabel |-> ""]}
        \cup {[isNil |-> FALSE, BotReplyLabel |-> l] : l \in {"", "[BOT]"}}
      LabelBotConfigs ==
        {[isNil |-> TRUE, Label |-> ""]}
        \cup {[isNil |-> FALSE, Label |-> l] : l \in {"", "[ash]"}}
  IN /\ Cfg = ExchangeConfig
     /\ BotCfg = [isNil |-> FALSE, Label |-> ""]
     /\ msgsLeft = 0
     /\ vocabulary = [t \in ExchangeTemplates |-> 0]
     /\ Start
     /\ run = IdleRun
     /\ \/ \E r \in Roots, p \in Seqs(PathSegments, MaxPath) :
             call = [NoHelperCall EXCEPT !.fn = "ExtractJSONPath",
                                         !.root = r, !.path = p]
        \/ \E t \in Texts, n \in 0..MaxTokens :
             call = [NoHelperCall EXCEPT !.fn = "TruncateText",
                                         !.text = t, !.tokenLimit = n]
        \/ \E c \in LabelConfigs, b \in LabelBotConfigs :
             call = [NoHelperCall EXCEPT !.fn = "ResolveReplyLabel",
                                         !.cfg = c, !.botCfg = b]

NextHelpers == Extract \/ Truncate \/ ResolveLabel

SpecHelpers == InitHelpers /\ [][NextHelpers]_vars

\* ------------------------------------------------------------- properties

\* the post with a given event id
PostOf(id) == CHOOSE p \in sent : p.id = id
IsPost(id) == \E p \in sent : p.id = id

\* the opener of the exchange a key of the store belongs to
ExchangeOf(id) ==
  IF IsPost(id) /\ PostOf(id).kind = "name" THEN PostOf(id).anchor ELSE id

\* a step in which HandleMessage handled an event
Handled == msgsLeft' = msgsLeft - 1

\* the posts and goroutines of the Command path
CommandPosts ==
  {p \in sent : p.kind \in {"notAllowed", "noConfig", "help", "unknown",
                            "opener", "result", "error", "own"}}
CommandTasks ==
  {t \in tasks : t.kind \in {"startKnockKnock", "FetchBotCommand"}}

\* C1: for every anchor of the store at most one reply is routed as
\* ConversationContinuation, and at most one name line or punchline is posted
\* for it.
C1_AtMostOneContinuation ==
  \A c \in continued :
    /\ Cardinality(Continued(c.anchor)) <= 1
    /\ Cardinality({p \in sent : p.anchor = c.anchor}) <= 1

\* C2: the exchange goes opener -> name line -> punchline.  Recording after
\* the opener gives a step-0 entry under the opener's event id; the handler of
\* a reply to the opener removes the opener key, posts the name line and then
\* records a step-1 entry under the name line's event id; the handler of a
\* reply to the name line removes its key, posts the punchline, and no entry
\* of this exchange is left in the store.
C2_ExchangeProgress ==
  [][ \A t \in tasks :
        /\ (startKnockKnock(t) /\ t.pc = "set") =>
             /\ PostOf(t.resp).kind = "opener"
             /\ t.resp \in DOMAIN pending'
             /\ pending'[t.resp].Step = 0
        /\ (handleKnockKnockReply(t) /\ t.pc = "delete" /\ t.step.Step = 0) =>
             /\ t.orig \notin DOMAIN pending'
             /\ (~evCtxDone /\ sent' # sent) =>
                   \E p \in sent' \ sent :
                      p.kind = "name" /\ p.anchor = t.orig
        /\ (handleKnockKnockReply(t) /\ t.pc = "set") =>
             /\ PostOf(t.resp).kind = "name"
             /\ t.orig \notin DOMAIN pending'
             /\ t.resp \in DOMAIN pending'
             /\ pending'[t.resp].Step = 1
        /\ (handleKnockKnockReply(t) /\ t.pc = "delete" /\ t.step.Step = 1) =>
             /\ sent' # sent =>
                   \E p \in sent' \ sent :
                      p.kind = "punchline" /\ p.anchor = t.orig
             /\ \A k \in DOMAIN pending' :
                   ExchangeOf(k) # ExchangeOf(t.orig)
    ]_vars

\* C3: an event of a monitored room that was persisted and whose body does
\* not contain the reply label is routed as ConversationContinuation exactly
\* when it is a reply to a key the store holds when HandleMessage looks it
\* up; then no command is dispatched and nothing is posted by HandleMessage,
\* whatever the body starts with; otherwise it is a Command or PassThrough.
C3_ContinuationIffInStore ==
  [][ (/\ Handled
       /\ last'.stored
       /\ ~Contains(last'.ev.body, label))
      =>
      LET ev == last'.ev
          hit == ev.replyTo # NoEvent /\ ev.replyTo \in DOMAIN pending
      IN /\ (last'.route = "ConversationContinuation") <=> hit
         /\ hit => /\ last'.dispatch = "none"
                   /\ sent' = sent
                   /\ gate' = gate
                   /\ \E t \in tasks' \ tasks :
                        /\ t.kind = "handleKnockKnockReply"
                        /\ t.orig = ev.replyTo
                        /\ t.step = pending[ev.replyTo]
                   /\ tasks' \ tasks \subseteq
                        {t \in tasks' : t.kind = "handleKnockKnockReply"}
         /\ ~hit => last'.route \in {"Command", "PassThrough"}
    ]_vars

\* a reply whose body starts with a command prefix was routed as
\* ConversationContinuation
C3_Witness ==
  /\ last.route = "ConversationContinuation"
  /\ HasPrefix(last.ev.body, "/bot")

\* the event ids a run under fair scheduling can assign
FairKeys == 1..(3 * MaxFairMsgs)

\* C4: every entry put into the store is eventually removed, by the handler
\* of a reply to it or by the cleanup goroutine started when it was recorded;
\* so, with no exchange started any more, the store becomes and stays empty.
C4_EntriesEventuallyRemoved ==
  /\ \A k \in FairKeys : (k \in DOMAIN pending) ~> (k \notin DOMAIN pending)
  /\ <>[](DOMAIN pending = {})

\* an opener was recorded, nobody replied to it, and its entry is gone: the
\* cleanup goroutine removed it
C4_Witness ==
  \E p \in sent :
    /\ p.kind = "opener"
    /\ p.id \notin DOMAIN pending
    /\ Continued(p.id) = {}
    /\ \A t \in tasks : t.resp # p.id /\ t.orig # p.id

\* the ids of the rooms of MATRIX_ROOM_ID
Monitored == {Cfg.RoomIDs[i].ID : i \in 1..Len(Cfg.RoomIDs)}

\* HandleMessage returned without persisting, routing or posting anything
NothingDone ==
  /\ MessagesDB' = MessagesDB
  /\ sent' = sent
  /\ tasks' = tasks
  /\ gate' = gate
  /\ continued' = continued
  /\ pending' = pending
  /\ ~last'.stored
  /\ ~last'.links
  /\ last'.dispatch = "none"

C6_LabelledIgnored ==
  /\ \A p \in sent : p.kind # "own" => Contains(p.body, label)
  /\ (/\ last.ev.id # NoEvent
      /\ last.ev.room \in Monitored
      /\ Contains(last.ev.body, label))
       => /\ last.route \notin {"ConversationContinuation", "Command"}
          /\ ~last.links

\* the rooms whose entry has no allow-list (and the rooms without an entry)
AllowListAbsent(r) ==
  \A i \in 1..Len(Cfg.RoomIDs) :
    Cfg.RoomIDs[i].ID = r => Cfg.RoomIDs[i].AllowedCommands.isNil

\* C7: in a room whose allow-list is absent no command is dispatched, no
\* command reply is posted and no exchange is started; an event whose body
\* starts with a command prefix is PassThrough there (unless it is Ignored or
\* a continuation by the earlier rules).
C7_AbsentAllowListDisablesCommands ==
  /\ \A p \in CommandPosts : ~AllowListAbsent(p.room)
  /\ \A t \in CommandTasks : ~AllowListAbsent(t.ev.room)
  /\ gate.state # "idle" => ~AllowListAbsent(gate.ev.room)
  /\ (last.ev.id # NoEvent /\ AllowListAbsent(last.ev.room)) =>
       /\ last.route # "Command"
       /\ last.dispatch = "none"
       /\ last.cmd = ""
       /\ (last.stored /\ last.route \notin {"Ignored",
                                             "ConversationContinuation"})
            => last.route = "PassThrough"

\* a command-looking event in a listed room without allow-list went to
\* PassThrough
C7_Witness ==
  /\ last.ev.room \in Monitored
  /\ AllowListAbsent(last.ev.room)
  /\ HasPrefix(last.ev.body, "/bot")
  /\ last.route = "PassThrough"

\* a step in which a dispatch went past the select of dispatchBotCommand
Passed ==
  \/ Handled /\ last'.dispatch = "passed"
  \/ gate.state = "ready" /\ gate'.state = "idle"

\* C8: past the gate, with an empty allow-list no command is turned down;
\* with a non-empty allow-list a command that is neither in it nor "hi" gets
\* the reply "command not allowed in this room" and nothing else: no other
\* reply, no goroutine; "hi" and the listed commands are never turned down.
C8_PermissionGate ==
  [][ Passed =>
      LET allowed == findRoom(last'.ev.room).entry.AllowedCommands.v
          cmd == last'.cmd
          listed == \E i \in 1..Len(allowed) : allowed[i] = cmd
      IN /\ (Len(allowed) = 0 \/ listed \/ cmd = "hi")
              => last'.result # "notAllowed"
         /\ (Len(allowed) > 0 /\ ~listed /\ cmd # "hi") =>
              /\ last'.result = "notAllowed"
              /\ tasks' = tasks
              /\ \A p \in sent' \ sent :
                   /\ p.body = <<label, "command not allowed in this room">>
                   /\ p.replyTo = last'.ev.id
              /\ last'.posted <=> sent' # sent
    ]_vars

\* the "not allowed" reply was posted
C8_Witness ==
  /\ last.result = "notAllowed"
  /\ last.posted
  /\ last.cmd = "help"

\* C9 as stated: once the ready signal has fired, every later dispatch passes
\* the gate.
C9_ReadyAlwaysPasses ==
  (last.route = "Command" /\ ~Cfg.DryRun /\ last.sawReady)
    => last.dispatch = "passed"

\* C9: nothing of the Command path happens before the ready signal has
\* fired; a dispatch that finds the ready signal fired and the context not
\* cancelled passes the gate; a dispatch that finds only the context
\* cancelled, or that waits at the gate when the context is cancelled, is
\* abandoned and posts nothing; a dispatch that finds both is passed or
\* abandoned.
C9_ReadyGate ==
  [][ /\ ~ReadyChan' =>
           /\ CommandPosts' = {}
           /\ CommandTasks' = {}
           /\ last'.dispatch # "passed"
      /\ (Handled /\ last'.route = "Command" /\ ~Cfg.DryRun) =>
           /\ (ReadyChan /\ ~evCtxDone) => last'.dispatch = "passed"
           /\ (~ReadyChan /\ evCtxDone) =>
                (last'.dispatch = "abandoned" /\ sent' = sent /\ tasks' = tasks)
           /\ (~ReadyChan /\ ~evCtxDone) =>
                (gate'.state = "blocked" /\ sent' = sent /\ tasks' = tasks)
           /\ (ReadyChan /\ evCtxDone) =>
                last'.dispatch \in {"passed", "abandoned"}
      /\ (gate.state = "blocked" /\ evCtxDone') => gate'.state = "done"
      /\ (gate.state = "blocked" /\ ReadyChan') => gate'.state = "ready"
      /\ (gate.state = "done" /\ gate'.state = "idle") =>
           (last'.dispatch = "abandoned" /\ sent' = sent /\ tasks' = tasks)
      /\ (gate.state = "ready" /\ gate'.state = "idle") =>
           last'.dispatch = "passed"
    ]_vars

\* a dispatch waited at the gate and replied after the ready signal
C9_Witness ==
  /\ last.dispatch = "passed"
  /\ ~last.sawReady
  /\ last.posted

\* C10: once the context is cancelled, a dispatch that reaches the gate posts
\* no reply and starts no goroutine for a command, also when the ready signal
\* has fired before.
C10_CancelStopsDispatch ==
  [][ (Handled /\ evCtxDone /\ last'.route = "Command")
      => (sent' = sent /\ tasks' = tasks /\ last'.dispatch # "passed")
    ]_vars

\* C11: HandleMessage returns without waiting for the command or for the ready
\* signal: no call of HandleMessage is ever held inside the select of
\* dispatchBotCommand, so the next event can be handled at any time, also
\* while goroutines of earlier commands are running.
C11_IngestionNeverBlocked ==
  /\ gate.state = "idle"
  /\ (msgsLeft > 0 /\ Available # {}) =>
       ENABLED (\E ev \in UserEvents : HandleMessage(ev))

\* the messages one execution posted, by who posted them
PostsBy(who) == SelectSeq(run.posts, LAMBDA p : p.by \in who)

\* C12: one execution of a command posts at most one message.  When the
\* handler (or the goroutine it started) has posted, bot.FetchBotCommand has
\* returned an empty text and no error and the goroutine of dispatchBotCommand
\* posts nothing; when that goroutine has posted the reply or the error
\* reply, the handler has posted nothing.
C12_NoDoublePost ==
  /\ Len(run.posts) <= 1
  /\ PostsBy({"handler", "goroutine"}) # << >> =>
        /\ run.pc \in {"returned", "done"}
        /\ run.resp = "" /\ run.err = ""
        /\ PostsBy({"router"}) = << >>
  /\ PostsBy({"router"}) # << >> => PostsBy({"handler", "goroutine"}) = << >>

\* an execution is over in which the handler posted its own message
C12_Witness ==
  /\ run.pc = "done"
  /\ run.bg \in {"none", "done"}
  /\ Len(PostsBy({"handler"})) = 1
  /\ PostsBy({"handler"})[1].kind \in {"image", "text", "leaderboard"}

\* the execution is over: the command goroutine and the goroutine of the
\* handler have returned
Over == run.pc = "done" /\ run.loaded /\ run.bg \in {"none", "done"}

\* C13: when a sub-step of an executed command has failed (an error of the
\* network, a status outside 2xx, a program that exits with an error, no
\* response of the AI, a failed image download or upload), the execution ends
\* with exactly one message, the reply "sorry, couldn't execute <cmd> right
\* now" to the invoking message (unless sending that reply fails too).
C13_FailureSurfacesAsSorry ==
  (Over /\ run.failed \ {"send response"} # {}) =>
     \/ run.posts = << Posted("router", "sorry", "invoking") >>
     \/ run.posts = << >> /\ run.err # "" /\ "send response" \in run.failed

\* C14: an entry of bot.json that validateCommand turns down (a type outside
\* http/exec/ai/builtin without a response, or a required field of its type
\* missing) makes LoadBotConfig fail, so bot.FetchBotCommand is never called
\* with such an entry and never fails with "unknown command type".
C14_MalformedRejectedAtLoad ==
  /\ run.loaded => validateCommand(run.c)
  /\ run.err # "unknown command type"

\* C15: every started execution of a command comes to an end: the command
\* goroutine returns, and so does the goroutine the handler started, also when
\* the program that was started never exits and the image server never
\* answers.
C15_TaskTerminates == run.loaded ~> Over

\* C16: when handleExecCommand has returned, on any path, no temporary file
\* it created exists any more: not the input file under its first or its new
\* name, and no {output} file.
C16_TempFilesRemoved ==
  (run.c.Type = "exec" /\ run.pc \in {"returned", "done"}) =>
     run.created \cap run.disk = {}

\* the handler returned after it had created and renamed the input file and
\* created an output file, and the program had failed
C16_Witness ==
  /\ run.c.Type = "exec" /\ run.pc = "returned"
  /\ run.err = "exec failed"
  /\ \E ext \in ImageExtensions :
       {File("exec_input_1", ".tmp"), File("exec_input_1", ext),
        File("exec_output_2", "")} \subseteq run.created

\* C20: for an entry with a literal response (kind static) bot.FetchBotCommand
\* returns that text unchanged and no error, and has made no network call,
\* started no program, queried no storage and posted no message.
C20_StaticReturnsLiteral ==
  (run.loaded /\ run.c.Response # "" /\ run.pc \in {"returned", "done"}) =>
     /\ run.resp = run.c.Response
     /\ run.err = ""
     /\ run.io = {}
     /\ PostsBy({"handler", "goroutine"}) = << >>
     /\ run.bg = "none"

\* bot.FetchBotCommand has returned for an entry with a literal response,
\* also for one that names a type as well
C20_Witness ==
  /\ run.pc = "returned"
  /\ run.c.Response = "pong" /\ run.c.Type = "http"

\* the names a help message lists
Listing == Tail(call.out)

\* C18 (as claimed): the help message lists the names sorted; without an
\* allow-list every name of the catalog, each once; with a non-empty
\* allow-list only names of that list, and "hi" always among them.
C18_HelpListing ==
  call.fn = "help" =>
    /\ \A i, j \in 1..Len(Listing) : i < j => ~Less(Listing[j], Listing[i])
    /\ call.allowed = << >> =>
          /\ Range(Listing) = call.catalog
          /\ Len(Listing) = Cardinality(call.catalog)
    /\ call.allowed # << >> =>
          /\ Range(Listing) \subseteq Range(call.allowed)
          /\ "hi" \in Range(Listing)

\* C19: for a body that starts with "/bot" the command name is its second
\* field, and "hi" when it has one field only; for a body that starts with
\* "@gork" it is "gork", whatever follows.
C19_CommandNameResolution ==
  call.fn = "cmd" =>
    /\ call.body[1] \in {"/bot", "/botany"} =>
          call.out = << IF Len(call.body) >= 2 THEN call.body[2] ELSE "hi" >>
    /\ call.body[1] \in {"@gork", "@gorky"} => call.out = <<"gork">>

\* the name was resolved for an alias body with more text after the alias
C19_Witness ==
  /\ call.fn = "cmd"
  /\ call.body = <<"@gorky", "kk">>
  /\ call.out = <<"gork">>

\* a step in which dispatchBotCommand got past its select, in the call of
\* HandleMessage or after it had waited
Dispatched ==
  /\ Handled \/ (gate.state = "ready" /\ gate'.state = "idle")
  /\ last'.dispatch = "passed"

C22_ContextIsSuffix ==
  call.fn = "context" =>
    /\ (call.body[1] = "/bot" /\ Len(call.body) >= 2) =>
          call.out = SubSeq(call.body, 3, Len(call.body))
    /\ call.body[1] = "@gork" => call.out = Tail(call.body)

\* C23: neither listing counts a message the bot posted (a body that begins
\* with the configured reply label) or a message the Router takes for a
\* command (a body whose first field begins with "/bot" or "@gork"): the
\* senders and the counts of the result are those of the table without
\* such rows.
C23_BotAndCommandsExcluded ==
  (call.fn = "returned" /\ ~call.db.isNil) =>
     LET Counts(r) ==
           /\ ~(r.body # << >> /\ r.body[1] = call.replyLabel)
           /\ ~IsCommandAnyRoom(ZeroRoom, Fields(r.body))
         groups == Grouped(SelectSeq(call.db.rows, Counts), call.ev.room)
     IN \A i \in DOMAIN call.out.entries :
          /\ call.out.entries[i].sender \in DOMAIN groups
          /\ call.out.entries[i].count = groups[call.out.entries[i].sender]

C25_GuessRank ==
  (call.fn = "returned" /\ ~call.db.isNil /\ IsGuess(call.args)) =>
     LET out == call.out
         parsed == Atoi(GuessArg(call.args))
         g == IF parsed.ok /\ parsed.n > 0 THEN parsed.n ELSE 1
         groups == Grouped(call.db.rows, call.ev.room)
         at == {i \in DOMAIN out.entries :
                  out.entries[i].sender = call.ev.sender}
     IN /\ out.guess = g
        /\ {out.entries[i].sender : i \in DOMAIN out.entries} = DOMAIN groups
        /\ Len(out.entries) = Cardinality(DOMAIN groups)
        /\ call.ev.sender \notin DOMAIN groups =>
             out.kind = "you have no messages today!"
        /\ call.ev.sender \in DOMAIN groups =>
             /\ at = {out.actualPos}
             /\ out.totalWords = groups[call.ev.sender]
             /\ g = out.actualPos => out.kind = "that's exactly right!"
             /\ g < out.actualPos =>
                  /\ out.kind = "than you thought"
                  /\ out.absDiff = out.actualPos - g
                  /\ out.direction = "higher"
             /\ g > out.actualPos =>
                  /\ out.kind = "than you thought"
                  /\ out.absDiff = g - out.actualPos
                  /\ out.direction = "lower"

\* alice, first of the table of the test, guesses 3
C25_Witness ==
  /\ call.fn = "returned"
  /\ call.db.rows = ExampleTable
  /\ call.args = <<"guess", " ", "3">>
  /\ call.ev.sender = "@alice"
  /\ call.out.actualPos = 1
  /\ call.out.absDiff = 2
  /\ call.out.direction = "lower"

\* C26: when the actual position is greater than the guessed one the message
\* says "lower": bob, second of the table of the test with 6 words, guesses 1
\* and is told "1 position lower".
C26_ActualGreaterSaysLower ==
  (call.fn = "returned" /\ call.out.kind = "than you thought"
     /\ call.out.actualPos > call.out.guess) =>
        call.out.direction = "lower"

\* C26 as the code has it: when the actual position is greater than the
\* guessed one the message says "higher than you thought", with the distance
\* between the two; bob is told that he is #2 with 6 words, 1 position higher.
C26_ActualGreaterSaysHigher ==
  (call.fn = "returned" /\ call.out.kind = "than you thought"
     /\ call.out.actualPos > call.out.guess) =>
        /\ call.out.direction = "higher"
        /\ call.out.absDiff = call.out.actualPos - call.out.guess
        /\ (call.db.rows = ExampleTable /\ call.ev.sender = "@bob"
              /\ call.out.guess = 1) =>
             /\ call.out.actualPos = 2
             /\ call.out.totalWords = 6
             /\ call.out.absDiff = 1

\* bob guesses 1 on the table of the test
C26_Witness ==
  /\ call.fn = "returned"
  /\ call.db.rows = ExampleTable
  /\ call.ev.sender = "@bob"
  /\ call.args = <<"guess", " ", "1">>
  /\ call.out.actualPos = 2
  /\ call.out.direction = "higher"

\* C27: the word count of a message is the number of the fields of its body:
\* a sender with one selected message is listed with the number of the
\* fields of its body.
C27_WordCountIsFieldCount ==
  (call.fn = "returned" /\ ~call.db.isNil) =>
     \A i \in DOMAIN call.out.entries :
        LET Theirs(r) == /\ Selected(r, call.ev.room)
                         /\ r.sender = call.out.entries[i].sender
            theirs == SelectSeq(call.db.rows, Theirs)
        IN Len(theirs) = 1 =>
             call.out.entries[i].count = Len(Fields(theirs[1].body))

\* C28: when the JSON of a 2xx response of an http command holds no value at
\* the JSON path, the user is answered with a message of its own for that
\* case, not with the reply "sorry, couldn't execute <cmd> right now".
C28_NoValueAnswersNotFound ==
  (Over /\ run.err = "no value found at path"
        /\ "send response" \notin run.failed) =>
     run.posts = << Posted("router", "not found", "invoking") >>

\* C29: a message of a monitored room with a body, parsed and stored without
\* an error, is in the messages table when HandleMessage returns, whatever it
\* is classified as; a step of HandleMessage stores no other message and no
\* other step stores anything, so the messages are stored in the order they
\* are ingested; a message that is routed, a message a reply is posted to and
\* a message a goroutine is started for is in the table already.
C29_PersistedBeforeClassified ==
  [][ /\ Handled =>
           /\ MessagesDB' \subseteq MessagesDB \cup {last'.ev.id}
           /\ (last'.ev.room \in Monitored /\ last'.ev.body # << >>
                 /\ last'.ev.fault = "none") =>
                /\ last'.stored
                /\ last'.ev.id \in MessagesDB'
           /\ last'.route \in {"ConversationContinuation", "Command",
                               "PassThrough"} =>
                last'.ev.id \in MessagesDB'
      /\ ~Handled => MessagesDB' = MessagesDB
      /\ \A p \in sent' \ sent : p.replyTo \in MessagesDB'
      /\ \A t \in tasks' \ tasks : t.kind # "evict" => t.ev.id \in MessagesDB'
    ]_vars

\* a stored command message that was replied to, after another message was
\* stored
C29_Witness ==
  /\ last.route = "Command"
  /\ last.ev.id \in MessagesDB
  /\ \E p \in sent : p.replyTo = last.ev.id
  /\ \E id \in MessagesDB : id # last.ev.id

C31_ExtractJSONPathStrict ==
  call.fn = "extracted" =>
    LET Step(cur, seg) ==
          IF cur.kind = "object"
            THEN IF seg \in DOMAIN cur.members THEN cur.members[seg] ELSE JNil
          ELSE IF cur.kind = "array"
            THEN IF (\A i \in DOMAIN seg : seg[i] \in Range(Digits))
                      /\ Value(seg) < Len(cur.items)
                   THEN cur.items[Value(seg) + 1] ELSE JNil
          ELSE JNil
    IN call.value =
         IF Len(call.path) = 0 THEN call.root
         ELSE IF Len(call.path) = 1 THEN Step(call.root, call.path[1])
         ELSE Step(Step(call.root, call.path[1]), call.path[2])

\* C32: TruncateText(t, n) is a prefix of t, is t when len(t)/4 <= n, has at
\* most 4n+3 characters and is left as it is by TruncateText(_, n); when t is
\* cut, it is cut at the last line break of its first 4n characters if that
\* lies past 2n, otherwise at the last space if that lies past 2n, otherwise
\* after 4n characters.
C32_TruncateText ==
  call.fn = "truncated" =>
    LET t == call.text
        n == call.tokenLimit
        r == call.truncated
        Past(c) == {i \in 1..Min(4 * n, Len(t)) : t[i] = c /\ i - 1 > 2 * n}
        Last(S) == CHOOSE i \in S : \A j \in S : j <= i
    IN /\ Len(r) <= Len(t)
       /\ r = SubSeq(t, 1, Len(r))
       /\ Len(t) \div 4 <= n => r = t
       /\ Len(r) <= 4 * n + 3
       /\ TruncateText(r, n) = r
       /\ Len(t) \div 4 > n =>
            Len(r) = IF Past("\n") # {} THEN Last(Past("\n")) - 1
                     ELSE IF Past(" ") # {} THEN Last(Past(" ")) - 1
                     ELSE 4 * n

\* a text of twelve characters is cut at the later of two line breaks past
\* the midpoint
C32_Witness ==
  /\ call.fn = "truncated"
  /\ call.tokenLimit = 2
  /\ call.text = <<"a", "a", "a", "a", "a", "\n", "\n", " ", "a", "a", "a", "a">>
  /\ call.truncated = <<"a", "a", "a", "a", "a", "\n">>

C33_TransformTarget ==
  (run.pc \in {"returned", "done"} /\ run.loaded /\ run.c.Type = "builtin"
     /\ run.c.Command = "uwuify" /\ run.err # "not a message event") =>
       /\ run.origText => run.reply
       /\ run.err = ""
       /\ run.resp = IF run.origText THEN "Uwuify(original)"
                     ELSE IF run.args THEN "Uwuify(args)"
                     ELSE "uwu~ pwease give me some text to twansfowm!"

\* the body has arguments and replies to a message with a text: the text of
\* that message was transformed and posted
C33_Witness ==
  /\ run.pc = "done"
  /\ run.c.Command = "uwuify"
  /\ run.args
  /\ run.origText
  /\ run.resp = "Uwuify(original)"
  /\ run.posts = << Posted("router", "text", "invoking") >>

\* C35: when bot.FetchBotCommand has returned an empty text and no error, the
\* handler or the goroutine it started has posted exactly one message by the
\* time the execution is over, so an execution without an error ends with
\* exactly one message.
C35_EmptyTextMeansHandlerPosted ==
  (Over /\ run.err = "" /\ run.resp = "") =>
     /\ Len(PostsBy({"handler", "goroutine"})) = 1
     /\ Len(run.posts) = 1

\* C36: a reply to an opener or a name line that HandleMessage routes while
\* the entry of that message is in the store, or after the message was posted
\* and before its entry is recorded, is routed as ConversationContinuation.
C36_NoWindowAfterPosting ==
  [][ (/\ Handled
       /\ last'.route \in {"ConversationContinuation", "Command", "PassThrough"}
       /\ \/ Get(pending, last'.ev.replyTo).ok
          \/ \E t \in tasks : /\ t.kind \in {"startKnockKnock",
                                             "handleKnockKnockReply"}
                              /\ t.pc = "set"
                              /\ t.resp = last'.ev.replyTo)
      => last'.route = "ConversationContinuation" ]_vars

C38_EntryOnlyAfterSend ==
  [][ /\ \A k \in DOMAIN pending' :
           \E p \in sent' : p.id = k /\ p.kind \in {"opener", "name"}
      /\ \A k \in DOMAIN pending' \ DOMAIN pending :
           \E p \in sent : p.id = k
      /\ \A t \in tasks \ tasks' :
           (t.kind = "startKnockKnock" /\ t.pc = "send" /\ sent' = sent) =>
              /\ pending' = pending
              /\ tasks' = tasks \ {t}
      /\ \A t \in tasks \ tasks' :
           (t.kind = "handleKnockKnockReply" /\ t.pc = "delete"
              /\ t.step.Step = 0 /\ sent' = sent) =>
              /\ t.orig \notin DOMAIN pending'
              /\ DOMAIN pending' \subseteq DOMAIN pending
              /\ tasks' = tasks \ {t}
    ]_vars

\* a name line could not be sent: its exchange has no entry and no goroutine
C38_Witness ==
  /\ \E c \in continued :
       /\ c.anchor \notin DOMAIN pending
       /\ \A p \in sent : p.anchor # c.anchor
       /\ \E p \in sent : p.id = c.anchor /\ p.kind = "opener"
  /\ tasks = {}
  /\ pending = << >>

\* C39: with DryRun configured the bot posts nothing, starts no goroutine for
\* a command or an exchange, waits at no gate, records no entry in the store
\* and calls no hook, and the messages of the monitored rooms that are parsed
\* and stored without an error are in the messages table.
C39_DryRunDoesNothing ==
  Cfg.DryRun =>
    /\ sent = {}
    /\ tasks = {}
    /\ pending = << >>
    /\ continued = {}
    /\ gate = IdleGate
    /\ ~last.hooks
    /\ last.dispatch \in {"none", "dryrun"}
    /\ (last.ev.id # NoEvent /\ last.ev.room \in Monitored
          /\ last.ev.body # << >> /\ last.ev.fault = "none") =>
         last.stored /\ last.ev.id \in MessagesDB

\* in a dry run a message with a URL was stored and its links were handled
\* without a hook, after another message was stored
C39_Witness ==
  /\ Cfg.DryRun
  /\ last.links /\ ~last.hooks
  /\ last.ev.id \in MessagesDB
  /\ Cardinality(MessagesDB) = 2

\* C40: when HandleMessage handles an event that cannot be parsed, has an
\* empty body or is not stored, it starts no continuation, dispatches no
\* command, handles no links, posts nothing and leaves the store of the
\* exchanges as it was.
C40_RejectedStopsThere ==
  [][ (Handled /\ (last'.ev.fault \in {"parse", "store"}
                     \/ last'.ev.body = << >>))
        => /\ sent' = sent
           /\ tasks' = tasks
           /\ gate' = gate
           /\ continued' = continued
           /\ pending' = pending
           /\ last'.route \in {"Ignored", "Rejected"}
           /\ last'.dispatch = "none"
           /\ ~last'.links
           /\ ~last'.hooks ]_vars

\* a reply to the anchor of a running exchange was not stored and was turned
\* down: the entry of the anchor is still in the store, nothing continued it
C40_Witness ==
  /\ last.ev.fault = "store"
  /\ last.route = "Rejected"
  /\ last.ev.replyTo # NoEvent
  /\ Get(pending, last.ev.replyTo).ok
  /\ Continued(last.ev.replyTo) = {}

====
